---- MODULE Spec2Model ----
(***************************************************************************)
(* Session / download orchestration of the playwright download API.        *)
(*                                                                         *)
(* The model follows the latest (identity-namespaced) variant of the       *)
(* program: one process, one shared browser context, a reader/writer lock  *)
(* contextMux guarding (browserContext, isLoggedIn, currentUserEmail),     *)
(* /login, /download and /status handlers running as concurrent tasks,     *)
(* and a detached background task per accepted download.                   *)
(*                                                                         *)
(* Strings that the program computes on (URLs, e-mail addresses, object    *)
(* keys) are sequences of one-character strings, so that generateR2Path    *)
(* is computed the way the code computes it.                               *)
(*                                                                         *)
(* Every call into the browser engine, the file system or the object       *)
(* store is an action whose outcome (success / error, the value read) is   *)
(* chosen by the environment.                                              *)
(*                                                                         *)
(* sync.RWMutex is modelled by its holders: Lock is enabled when nobody    *)
(* holds the lock, RLock when no writer holds it.  Go additionally blocks  *)
(* new readers while a writer is waiting; the model allows those           *)
(* interleavings too, so it has every behaviour of the program.            *)
(***************************************************************************)
EXTENDS Integers, Sequences, FiniteSets, TLC

(***************************************************************************)
(* Bounds of the model: the number of /login and /download requests that   *)
(* can be in flight at the same time.  A finished request frees its slot,  *)
(* so the number of requests served over time is unbounded.                *)
(***************************************************************************)
NLogin == 2
NDownload == 2

LoginReqs == 1..NLogin
DownloadReqs == 1..NDownload

(***************************************************************************)
(* Request inputs.                                                         *)
(***************************************************************************)
EmptyStr == <<>>
\* "a@b.com", shortened
EmailA == <<"a", "@", "b">>
\* the e-mail loginHandler substitutes for an empty one ("mymymy@gmail.com")
DefaultEmail == <<"m", "y", "@", "g">>
\* "h://s/red-fox_12.htm": scheme, host, slug, numeric id, extension
UrlFox == <<"h", ":", "/", "/", "s", "/", "r", "-", "f", "_", "1", "2", ".", "h">>
\* "h://s/cat.htm": no numeric id suffix
UrlCat == <<"h", ":", "/", "/", "s", "/", "c", "a", "t", ".", "h">>

\* "h://s/r_f.h": a slug with an underscore and no numeric id
UrlSlug == <<"h", ":", "/", "/", "s", "/", "r", "_", "f", ".", "h">>
\* "h://s/a_b_12.h?s": two underscores, a numeric id, a query
UrlQuery == <<"h", ":", "/", "/", "s", "/", "a", "_", "b", "_", "1", "2", ".", "h",
              "?", "s">>
\* the arguments generateR2Path is studied on
KeyURLs == {UrlFox, UrlCat, UrlSlug, UrlQuery}
KeyEmails == {EmptyStr, EmailA, DefaultEmail}

LoginEmails == {EmptyStr, EmailA}
DownloadEmails == {EmptyStr, EmailA}
DownloadURLs == {EmptyStr, UrlFox, UrlCat}
Methods == {"POST", "GET"}


(***************************************************************************)
(* String helpers (strings are sequences of one-character strings).        *)
(***************************************************************************)
\* index of the first occurrence of character c in s, 0 when absent
IndexOf(s, c) ==
    IF \E i \in 1..Len(s) : s[i] = c
    THEN CHOOSE i \in 1..Len(s) : s[i] = c /\ \A j \in 1..(i - 1) : s[j] # c
    ELSE 0

\* index of the last occurrence of character c in s, 0 when absent
LastIndexOf(s, c) ==
    IF \E i \in 1..Len(s) : s[i] = c
    THEN CHOOSE i \in 1..Len(s) : s[i] = c /\ \A j \in (i + 1)..Len(s) : s[j] # c
    ELSE 0

\* s[1..n]
Prefix(s, n) == SubSeq(s, 1, n)

\* s[n..]
Suffix(s, n) == SubSeq(s, n, Len(s))

\* strings.TrimRight(s, "/")
RECURSIVE TrimRightSlash(_)
TrimRightSlash(s) ==
    IF Len(s) > 0 /\ s[Len(s)] = "/" THEN TrimRightSlash(Prefix(s, Len(s) - 1)) ELSE s

Letters == {"a", "b", "c", "d", "f", "g", "h", "m", "r", "s", "t", "y"}
Digits == {"0", "1", "2", "4"}

(***************************************************************************)
(* url.Parse(originalURL).Path: the fragment and the query are cut off, a  *)
(* leading scheme ("letters:") is removed, and after "//" the authority up *)
(* to the next "/" is removed.  (The model's URLs hold no percent escapes, *)
(* so the decoding of the path is the identity on them.)                   *)
(***************************************************************************)
\* s up to, not including, the first c; all of s when c is absent
cutBefore(s, c) == IF IndexOf(s, c) > 0 THEN Prefix(s, IndexOf(s, c) - 1) ELSE s

\* s begins with a scheme: a letter, then letters, digits, "+", "-", ".", then ":"
hasScheme(s) ==
    /\ IndexOf(s, ":") > 1
    /\ s[1] \in Letters
    /\ \A i \in 1..(IndexOf(s, ":") - 1) : s[i] \in Letters \cup Digits \cup {"+", "-", "."}

\* s without its scheme and the colon after it
afterScheme(s) == IF hasScheme(s) THEN Suffix(s, IndexOf(s, ":") + 1) ELSE s

\* rest begins with "//": an authority follows
hasAuthority(rest) == Len(rest) >= 2 /\ rest[1] = "/" /\ rest[2] = "/"

\* what follows the authority, from its first "/" on; empty when there is none
afterAuthority(s) == IF IndexOf(s, "/") > 0 THEN Suffix(s, IndexOf(s, "/")) ELSE EmptyStr

\* the path of what follows the scheme
pathOf(rest) == IF hasAuthority(rest) THEN afterAuthority(Suffix(rest, 3)) ELSE rest

urlPath(originalURL) ==
    pathOf(afterScheme(cutBefore(cutBefore(originalURL, "#"), "?")))

\* filepath.Base: the last element of the path, "." for the empty path
filepathBase(path) ==
    IF path = EmptyStr THEN <<".">>
    ELSE LET trimmed == TrimRightSlash(path)
         IN  IF trimmed = EmptyStr THEN <<"/">>
             ELSE Suffix(trimmed, LastIndexOf(trimmed, "/") + 1)

\* filepath.Ext: the suffix of the last element starting at its final dot
filepathExt(path) ==
    LET dot == LastIndexOf(path, ".")
    IN  IF dot > 0 /\ dot > LastIndexOf(path, "/") THEN Suffix(path, dot) ELSE EmptyStr

\* strings.Split(name, "_") followed by strings.Join(parts[:len(parts)-1], "_")
\* when there is more than one part: the name up to its last underscore
dropLastPart(name) ==
    IF LastIndexOf(name, "_") > 0 THEN Prefix(name, LastIndexOf(name, "_") - 1) ELSE name

\* url.QueryEscape of one character
escapeChar(c) ==
    IF c \in Letters \cup Digits \cup {"-", "_", ".", "~"} THEN <<c>>
    ELSE IF c = " " THEN <<"+">>
    ELSE IF c = "@" THEN <<"%", "4", "0">>
    ELSE IF c = "/" THEN <<"%", "2", "F">>
    ELSE IF c = ":" THEN <<"%", "3", "A">>
    ELSE <<"%", "X", "X">>

\* url.QueryEscape
RECURSIVE QueryEscape(_)
QueryEscape(s) ==
    IF s = EmptyStr THEN EmptyStr ELSE escapeChar(Head(s)) \o QueryEscape(Tail(s))

\* getEnv("R2_URL", ...): the public base URL, here "h://r2/"
R2Base == <<"h", ":", "/", "/", "r", "2", "/">>

\* the forced extension
DotJpg == <<".", "j", "p", "g">>

(***************************************************************************)
(* generateR2Path(originalURL, email) -> (fullURL, objectKey)              *)
(***************************************************************************)
finalFilename(originalURL) ==
    LET baseName == filepathBase(urlPath(originalURL))
        ext == filepathExt(baseName)
        nameWithoutExt == Prefix(baseName, Len(baseName) - Len(ext))
    IN  dropLastPart(nameWithoutExt) \o DotJpg

generateR2Path(originalURL, email) ==
    LET encodedEmail == QueryEscape(email)
        fullURL == TrimRightSlash(R2Base) \o <<"/">> \o encodedEmail \o <<"/">>
                       \o finalFilename(originalURL)
        objectKey == encodedEmail \o <<"/">> \o finalFilename(originalURL)
    IN  [fullURL |-> fullURL, objectKey |-> objectKey]


(***************************************************************************)
(* State.                                                                  *)
(***************************************************************************)
VARIABLES
    mainPc,            \* position of main: "boot", "serving", or "dead" (log.Fatalf)
    browserContext,    \* the shared context: "nil", "stored" (from storage state), "fresh"
    isLoggedIn,        \* the logged-in flag
    currentUserEmail,  \* e-mail of the last /login request
    contextMux,        \* the RWMutex: [w |-> writer or NoOne, r |-> set of readers]
    stateFile,         \* the storage-state file: "absent" or "present"
    files,             \* local files present (staged downloads, other files)
    login,             \* login[l]: the /login request running in slot l
    download,          \* download[d]: the /download request (and its task) in slot d
    status,            \* the /status request being served
    lastLogin,         \* history: outcome of the performLogin that returned last
    env,               \* the R2 credentials set in the environment of the process
    uploader           \* the global uploader of the variant that builds it at startup

vars == <<mainPc, browserContext, isLoggedIn, currentUserEmail, contextMux, stateFile,
          files, login, download, status, lastLogin, env, uploader>>

NoOne == <<"none", 0>>
Lid(l) == <<"login", l>>
Did(d) == <<"download", d>>
Sid == <<"status", 0>>

\* suggested file names the remote side can give a download
Filenames == {"a.jpg", "b.jpg"}

\* filepath.Join(downloadPath, filename)
StagedPath(filename) == <<"freepik_downloads", filename>>

\* a string used as a local path as it is
AsPath(s) == <<"path", s>>

NoPath == <<"none", "">>

SuccessSelectors == 1..4
ErrorSelectors == 1..5
LoginPageURLs == {"https://www.freepik.com/login", "https://www.freepik.com/sign-in"}
PageURLs == LoginPageURLs \cup {"https://www.freepik.com/"}

\* no page has been looked at
NoView == [successVisible |-> [i \in SuccessSelectors |-> FALSE], pageURL |-> "",
           errorVisible |-> [j \in ErrorSelectors |-> FALSE]]

IdleLogin == [pc |-> "idle", email |-> EmptyStr, err |-> "", code |-> 0,
              before |-> [isLoggedIn |-> FALSE, stateFile |-> "absent",
                          browserContext |-> "nil"],
              view |-> NoView]

IdleDownload == [pc |-> "idle", url |-> EmptyStr, email |-> EmptyStr, code |-> 0,
                 err |-> "", loggedIn |-> FALSE, userEmail |-> EmptyStr,
                 file |-> EmptyStr, r2Key |-> EmptyStr, currentContext |-> "nil",
                 title |-> "", localFilePath |-> NoPath,
                 uploadPath |-> NoPath, uploadKey |-> EmptyStr, uploads |-> 0,
                 removed |-> 0, spawned |-> 0, visible |-> "unseen",
                 handle |-> "none", contextCloses |-> 0]

IdleStatus == [pc |-> "idle", code |-> 0, logged_in |-> FALSE]

(***************************************************************************)
(* sync.RWMutex                                                            *)
(***************************************************************************)
\* Lock() returns: nobody holds the lock
CanLock == contextMux.w = NoOne /\ contextMux.r = {}

\* RLock() returns: no writer holds the lock
CanRLock == contextMux.w = NoOne

Locked(p) == [contextMux EXCEPT !.w = p]
Unlocked == [contextMux EXCEPT !.w = NoOne]
RLocked(p) == [contextMux EXCEPT !.r = @ \cup {p}]
RUnlocked(p) == [contextMux EXCEPT !.r = @ \ {p}]

(***************************************************************************)
(* Process start.  The storage-state file is there or not, as earlier runs *)
(* of the program left it.  The working directory holds one file whose     *)
(* relative path reads like UrlCat, and none that reads like UrlFox, so    *)
(* that os.Open on a URL string has both of its outcomes.                  *)
(***************************************************************************)
\* R2_ACCOUNT_ID, the access key id, the secret access key
R2Credentials == {"account", "key", "secret"}

Init ==
    /\ mainPc = "boot"
    /\ browserContext = "nil"
    /\ isLoggedIn = FALSE
    /\ currentUserEmail = EmptyStr
    /\ contextMux = [w |-> NoOne, r |-> {}]
    /\ stateFile \in {"absent", "present"}
    /\ files = {AsPath(UrlCat)}
    /\ login = [l \in LoginReqs |-> IdleLogin]
    /\ download = [d \in DownloadReqs |-> IdleDownload]
    /\ status = IdleStatus
    /\ lastLogin = "none"
    /\ env = R2Credentials
    /\ uploader = "nil"

\* mutant: the fresh context counts as logged in
createNewContext_LoggedIn(ok) ==
    IF ok
    THEN /\ browserContext' = "fresh"
         /\ isLoggedIn' = TRUE
         /\ mainPc' = "serving"
    ELSE /\ mainPc' = "dead"
         /\ UNCHANGED <<browserContext, isLoggedIn>>

\* createNewContext(): a fresh context and isLoggedIn = false, or log.Fatalf
createNewContext(ok) ==
    IF ok
    THEN /\ browserContext' = "fresh"
         /\ isLoggedIn' = FALSE
         /\ mainPc' = "serving"
    ELSE /\ mainPc' = "dead"
         /\ UNCHANGED <<browserContext, isLoggedIn>>

\* mutant: main loads the storage state without setting the flag
main_LoadNoFlag ==
    /\ mainPc = "boot"
    /\ \E runOk \in BOOLEAN, launchOk \in BOOLEAN, loadOk \in BOOLEAN, freshOk \in BOOLEAN :
          IF ~runOk \/ ~launchOk
          THEN /\ mainPc' = "dead"
               /\ UNCHANGED <<browserContext, isLoggedIn>>
          ELSE IF stateFile # "absent"
               THEN IF loadOk
                    THEN /\ browserContext' = "stored"
                         /\ isLoggedIn' = isLoggedIn
                         /\ mainPc' = "serving"
                    ELSE createNewContext(freshOk)
               ELSE createNewContext(freshOk)
    /\ UNCHANGED <<currentUserEmail, contextMux, stateFile, files, login, download,
                   status, lastLogin, env, uploader>>

\* main(): start the engine, launch the browser, load the storage state when the
\* file exists (os.Stat), else create a fresh context; then serve
main ==
    /\ mainPc = "boot"
    /\ \E runOk \in BOOLEAN, launchOk \in BOOLEAN, loadOk \in BOOLEAN, freshOk \in BOOLEAN :
          IF ~runOk \/ ~launchOk
          THEN /\ mainPc' = "dead"
               /\ UNCHANGED <<browserContext, isLoggedIn>>
          ELSE IF stateFile # "absent"
               THEN IF loadOk
                    THEN /\ browserContext' = "stored"
                         /\ isLoggedIn' = TRUE
                         /\ mainPc' = "serving"
                    ELSE createNewContext(freshOk)
               ELSE createNewContext(freshOk)
    /\ UNCHANGED <<currentUserEmail, contextMux, stateFile, files, login, download,
                   status, lastLogin, env, uploader>>

Serving == mainPc = "serving"


(***************************************************************************)
(* POST /login                                                             *)
(***************************************************************************)
OtherVars == <<mainPc, browserContext, files, download, status, env, uploader>>

\* loginHandler up to its first Lock(): method check, JSON decoding, default e-mail
\* (the password only travels to page.Fill and decides nothing, so it is not kept)
loginHandler(l) ==
    /\ Serving
    /\ login[l].pc = "idle"
    /\ \E method \in Methods, jsonOk \in BOOLEAN, email \in LoginEmails :
          login' = [login EXCEPT ![l] =
              IF method # "POST"
              THEN [@ EXCEPT !.pc = "lh_responded", !.code = 405,
                             !.err = "Method not allowed"]
              ELSE IF ~jsonOk
              THEN [@ EXCEPT !.pc = "lh_responded", !.code = 200,
                             !.err = "Invalid JSON payload"]
              ELSE [@ EXCEPT !.pc = "lh_lock",
                             !.email = IF email = EmptyStr THEN DefaultEmail ELSE email]]
    /\ UNCHANGED <<OtherVars, isLoggedIn, currentUserEmail, contextMux, stateFile,
                   lastLogin>>

\* contextMux.Lock() in loginHandler
\* mutant: loginHandler writes the e-mail without taking the lock
loginHandler_Lock_Skip(l) ==
    /\ login[l].pc = "lh_lock"
    /\ login' = [login EXCEPT ![l].pc = "lh_set"]
    /\ UNCHANGED <<OtherVars, isLoggedIn, currentUserEmail, contextMux, stateFile,
                   lastLogin>>

loginHandler_Lock(l) ==
    /\ login[l].pc = "lh_lock"
    /\ CanLock
    /\ contextMux' = Locked(Lid(l))
    /\ login' = [login EXCEPT ![l].pc = "lh_set"]
    /\ UNCHANGED <<OtherVars, isLoggedIn, currentUserEmail, stateFile, lastLogin>>

\* currentUserEmail = req.Email; contextMux.Unlock()
loginHandler_SetEmail(l) ==
    /\ login[l].pc = "lh_set"
    /\ currentUserEmail' = login[l].email
    /\ contextMux' = Unlocked
    /\ login' = [login EXCEPT ![l].pc = "pl_lock"]
    /\ UNCHANGED <<OtherVars, isLoggedIn, stateFile, lastLogin>>

\* mutant: performLogin goes on without waiting for the lock
performLogin_Lock_NoWait(l) ==
    /\ login[l].pc = "pl_lock"
    /\ contextMux' = Locked(Lid(l))
    /\ login' = [login EXCEPT ![l].pc = "pl_newpage",
                              ![l].before = [isLoggedIn |-> isLoggedIn,
                                             stateFile |-> stateFile,
                                             browserContext |-> browserContext]]
    /\ UNCHANGED <<OtherVars, isLoggedIn, currentUserEmail, stateFile, lastLogin>>

\* mutant: a login starts by clearing the logged-in flag
performLogin_Lock_Reset(l) ==
    /\ login[l].pc = "pl_lock"
    /\ CanLock
    /\ contextMux' = Locked(Lid(l))
    /\ isLoggedIn' = FALSE
    /\ login' = [login EXCEPT ![l].pc = "pl_newpage",
                              ![l].before = [isLoggedIn |-> isLoggedIn,
                                             stateFile |-> stateFile,
                                             browserContext |-> browserContext]]
    /\ UNCHANGED <<OtherVars, currentUserEmail, stateFile, lastLogin>>

\* performLogin: contextMux.Lock(); defer contextMux.Unlock()
performLogin_Lock(l) ==
    /\ login[l].pc = "pl_lock"
    /\ CanLock
    /\ contextMux' = Locked(Lid(l))
    /\ login' = [login EXCEPT ![l].pc = "pl_newpage",
                              ![l].before = [isLoggedIn |-> isLoggedIn,
                                             stateFile |-> stateFile,
                                             browserContext |-> browserContext]]
    /\ UNCHANGED <<OtherVars, isLoggedIn, currentUserEmail, stateFile, lastLogin>>

\* mutant: a failed step also clears the logged-in flag
LoginStep_ClearFlag(l, from, to, errmsg) ==
    /\ login[l].pc = from
    /\ \E ok \in BOOLEAN :
          /\ login' = [login EXCEPT ![l] =
                 IF ok THEN [@ EXCEPT !.pc = to]
                 ELSE [@ EXCEPT !.pc = "pl_return", !.err = errmsg]]
          /\ isLoggedIn' = (ok /\ isLoggedIn)
    /\ UNCHANGED <<OtherVars, currentUserEmail, contextMux, stateFile, lastLogin>>

\* mutant: a failed step records its error and the sequence goes on
LoginStep_GoOn(l, from, to, errmsg) ==
    /\ login[l].pc = from
    /\ \E ok \in BOOLEAN :
          login' = [login EXCEPT ![l] =
              IF ok THEN [@ EXCEPT !.pc = to]
              ELSE [@ EXCEPT !.pc = to, !.err = errmsg]]
    /\ UNCHANGED <<OtherVars, isLoggedIn, currentUserEmail, contextMux, stateFile,
                   lastLogin>>

\* mutant: the checkbox step is mandatory
performLogin_Checkbox_Fatal(l) ==
    /\ login[l].pc = "pl_checkbox"
    /\ \E visible \in BOOLEAN, checkOk \in BOOLEAN :
          login' = [login EXCEPT ![l] =
              IF visible /\ ~checkOk
              THEN [@ EXCEPT !.pc = "pl_return", !.err = "failed to check stay logged in"]
              ELSE [@ EXCEPT !.pc = "pl_submit"]]
    /\ UNCHANGED <<OtherVars, isLoggedIn, currentUserEmail, contextMux, stateFile,
                   lastLogin>>

\* one mandatory browser step of performLogin: on success go on to the next step,
\* on error return the error
LoginStep(l, from, to, errmsg) ==
    /\ login[l].pc = from
    /\ \E ok \in BOOLEAN :
          login' = [login EXCEPT ![l] =
              IF ok THEN [@ EXCEPT !.pc = to]
              ELSE [@ EXCEPT !.pc = "pl_return", !.err = errmsg]]
    /\ UNCHANGED <<OtherVars, isLoggedIn, currentUserEmail, contextMux, stateFile,
                   lastLogin>>

\* page, err := browserContext.NewPage()
performLogin_NewPage(l) ==
    LoginStep(l, "pl_newpage", "pl_script", "failed to create page")

\* page.AddInitScript(...)
performLogin_AddInitScript(l) ==
    LoginStep(l, "pl_script", "pl_goto", "failed to inject stealth scripts")

\* Step 1: page.Goto("https://www.freepik.com", networkidle)
performLogin_Goto(l) ==
    LoginStep(l, "pl_goto", "pl_signin", "failed to navigate to freepik")

\* Step 2: page.Click(signInSelector)
performLogin_ClickSignIn(l) ==
    LoginStep(l, "pl_signin", "pl_continue", "failed to click sign in button")

\* Step 3: page.Click(continueWithEmailSelector)
performLogin_ClickContinue(l) ==
    LoginStep(l, "pl_continue", "pl_email", "failed to click continue with email button")

\* Step 4: page.Fill(emailSelector, email)
performLogin_FillEmail(l) ==
    LoginStep(l, "pl_email", "pl_password", "failed to fill email")

\* Step 4: page.Fill(passwordSelector, password)
performLogin_FillPassword(l) ==
    LoginStep(l, "pl_password", "pl_checkbox", "failed to fill password")

\* Step 5: if the "stay logged in" checkbox is visible, page.Check it; an error is
\* only logged
performLogin_Checkbox(l) ==
    /\ login[l].pc = "pl_checkbox"
    /\ \E visible \in BOOLEAN, checkOk \in BOOLEAN :
          login' = [login EXCEPT ![l].pc = "pl_submit"]
    /\ UNCHANGED <<OtherVars, isLoggedIn, currentUserEmail, contextMux, stateFile,
                   lastLogin>>

\* Step 6: page.Click(loginButtonSelector)
performLogin_ClickSubmit(l) ==
    LoginStep(l, "pl_submit", "pl_classify", "failed to click login button")

\* mutant: a page that shows neither a success nor a failure signal is a failure
loginOutcome_Strict(successVisible, pageURL, errorVisible) ==
    LET loginSuccess == \E i \in SuccessSelectors : successVisible[i]
    IN  IF ~loginSuccess THEN "login failed - still on login page" ELSE ""

\* the error performLogin returns after the submit, "" for none: success when a
\* success selector is visible; else failure on a login-page URL or a visible
\* error selector; else success
loginOutcome(successVisible, pageURL, errorVisible) ==
    LET loginSuccess == \E i \in SuccessSelectors : successVisible[i]
    IN  IF ~loginSuccess
        THEN IF pageURL \in LoginPageURLs
             THEN "login failed - still on login page"
             ELSE IF \E j \in ErrorSelectors : errorVisible[j]
                  THEN "login failed - error message detected"
                  ELSE ""
        ELSE ""

\* what the page can show after the submit: which success selectors are visible,
\* the page URL, which error selectors are visible
PageViews ==
    [successVisible : [SuccessSelectors -> BOOLEAN], pageURL : PageURLs,
     errorVisible : [ErrorSelectors -> BOOLEAN]]

\* the results loginOutcome has over all the page can show
LoginOutcomes ==
    {loginOutcome(v.successVisible, v.pageURL, v.errorVisible) : v \in PageViews}

\* mutant: the storage state is written although the outcome is a failure
performLogin_Classify_Persist(l) ==
    /\ login[l].pc = "pl_classify"
    /\ \E e \in LoginOutcomes :
          login' = [login EXCEPT ![l] =
              IF e = "" THEN [@ EXCEPT !.pc = "pl_save"]
              ELSE [@ EXCEPT !.pc = "pl_return", !.err = e]]
    /\ stateFile' = "present"
    /\ UNCHANGED <<OtherVars, isLoggedIn, currentUserEmail, contextMux, lastLogin>>

\* Step 7: classify the outcome from what the page shows
performLogin_Classify(l) ==
    /\ login[l].pc = "pl_classify"
    /\ \E e \in LoginOutcomes :
          login' = [login EXCEPT ![l] =
              IF e = "" THEN [@ EXCEPT !.pc = "pl_save"]
              ELSE [@ EXCEPT !.pc = "pl_return", !.err = e]]
    /\ UNCHANGED <<OtherVars, isLoggedIn, currentUserEmail, contextMux, stateFile,
                   lastLogin>>

\* Step 7 with what the page showed kept for inspection
performLogin_ClassifyView(l) ==
    /\ login[l].pc = "pl_classify"
    /\ \E v \in PageViews :
          login' = [login EXCEPT ![l] =
              IF loginOutcome(v.successVisible, v.pageURL, v.errorVisible) = ""
              THEN [@ EXCEPT !.pc = "pl_save", !.view = v]
              ELSE [@ EXCEPT !.pc = "pl_return", !.view = v,
                             !.err = loginOutcome(v.successVisible, v.pageURL,
                                                  v.errorVisible)]]
    /\ UNCHANGED <<OtherVars, isLoggedIn, currentUserEmail, contextMux, stateFile,
                   lastLogin>>

\* mutant: performLogin goes on to set the flag although saving failed
performLogin_StorageState_Ignore(l) ==
    /\ login[l].pc = "pl_save"
    /\ \E ok \in BOOLEAN :
          /\ stateFile' = IF ok THEN "present" ELSE stateFile
          /\ login' = [login EXCEPT ![l].pc = "pl_setflag"]
    /\ UNCHANGED <<OtherVars, isLoggedIn, currentUserEmail, contextMux, lastLogin>>

\* Step 8: browserContext.StorageState(storageStateFile)
performLogin_StorageState(l) ==
    /\ login[l].pc = "pl_save"
    /\ \E ok \in BOOLEAN :
          IF ok
          THEN /\ stateFile' = "present"
               /\ login' = [login EXCEPT ![l].pc = "pl_setflag"]
          ELSE /\ stateFile' = stateFile
               /\ login' = [login EXCEPT ![l].pc = "pl_return",
                                         ![l].err = "failed to save storage state"]
    /\ UNCHANGED <<OtherVars, isLoggedIn, currentUserEmail, contextMux, lastLogin>>

\* mutant: a successful login installs another context
performLogin_SetLoggedIn_Swap(l) ==
    /\ login[l].pc = "pl_setflag"
    /\ isLoggedIn' = TRUE
    /\ browserContext' = "login"
    /\ login' = [login EXCEPT ![l].pc = "pl_return"]
    /\ UNCHANGED <<mainPc, files, download, status, currentUserEmail, contextMux,
                   stateFile, lastLogin, env, uploader>>

\* isLoggedIn = true; return nil
performLogin_SetLoggedIn(l) ==
    /\ login[l].pc = "pl_setflag"
    /\ isLoggedIn' = TRUE
    /\ login' = [login EXCEPT ![l].pc = "pl_return"]
    /\ UNCHANGED <<OtherVars, currentUserEmail, contextMux, stateFile, lastLogin>>

\* mutant: performLogin returns with the lock still held
performLogin_Return_KeepLock(l) ==
    /\ login[l].pc = "pl_return"
    /\ lastLogin' = IF login[l].err = "" THEN "ok" ELSE "fail"
    /\ login' = [login EXCEPT ![l].pc = "lh_respond"]
    /\ UNCHANGED <<OtherVars, isLoggedIn, currentUserEmail, contextMux, stateFile>>

\* performLogin returns: the deferred page.Close() and contextMux.Unlock() run
performLogin_Return(l) ==
    /\ login[l].pc = "pl_return"
    /\ contextMux' = Unlocked
    /\ lastLogin' = IF login[l].err = "" THEN "ok" ELSE "fail"
    /\ login' = [login EXCEPT ![l].pc = "lh_respond"]
    /\ UNCHANGED <<OtherVars, isLoggedIn, currentUserEmail, stateFile>>

\* loginHandler answers {success, message | error}
loginHandler_Respond(l) ==
    /\ login[l].pc = "lh_respond"
    /\ login' = [login EXCEPT ![l].pc = "lh_responded", ![l].code = 200]
    /\ UNCHANGED <<OtherVars, isLoggedIn, currentUserEmail, contextMux, stateFile,
                   lastLogin>>

\* the request is over; its slot serves the next one
loginHandler_Done(l) ==
    /\ login[l].pc = "lh_responded"
    /\ login' = [login EXCEPT ![l] = IdleLogin]
    /\ UNCHANGED <<OtherVars, isLoggedIn, currentUserEmail, contextMux, stateFile,
                   lastLogin>>

\* the steps of a login request once loginHandler has taken it
LoginRun(l) ==
    \/ loginHandler_Lock(l)
    \/ loginHandler_SetEmail(l)
    \/ performLogin_Lock(l)
    \/ performLogin_NewPage(l)
    \/ performLogin_AddInitScript(l)
    \/ performLogin_Goto(l)
    \/ performLogin_ClickSignIn(l)
    \/ performLogin_ClickContinue(l)
    \/ performLogin_FillEmail(l)
    \/ performLogin_FillPassword(l)
    \/ performLogin_Checkbox(l)
    \/ performLogin_ClickSubmit(l)
    \/ performLogin_Classify(l)
    \/ performLogin_StorageState(l)
    \/ performLogin_SetLoggedIn(l)
    \/ performLogin_Return(l)
    \/ loginHandler_Respond(l)

LoginNext(l) ==
    \/ loginHandler(l)
    \/ LoginRun(l)
    \/ loginHandler_Done(l)


(***************************************************************************)
(* POST /download                                                          *)
(***************************************************************************)
DlOther == <<mainPc, browserContext, isLoggedIn, currentUserEmail, stateFile, login,
             status, lastLogin, env, uploader>>

\* mutant: the e-mail of the request is not checked
downloadHandler_NoEmailCheck(d) ==
    /\ Serving
    /\ download[d].pc = "idle"
    /\ \E method \in Methods, jsonOk \in BOOLEAN, url \in DownloadURLs,
          email \in DownloadEmails :
          download' = [download EXCEPT ![d] =
              IF method # "POST"
              THEN [@ EXCEPT !.pc = "dh_responded", !.code = 405,
                             !.err = "Method not allowed"]
              ELSE IF ~jsonOk
              THEN [@ EXCEPT !.pc = "dh_responded", !.code = 400,
                             !.err = "Invalid JSON payload"]
              ELSE IF url = EmptyStr
              THEN [@ EXCEPT !.pc = "dh_responded", !.code = 400, !.url = url,
                             !.email = email, !.err = "URL is required"]
              ELSE [@ EXCEPT !.pc = "dh_rlock", !.url = url, !.email = email]]
    /\ UNCHANGED <<DlOther, contextMux, files>>

\* downloadHandler up to RLock(): method check, JSON decoding, required fields
downloadHandler(d) ==
    /\ Serving
    /\ download[d].pc = "idle"
    /\ \E method \in Methods, jsonOk \in BOOLEAN, url \in DownloadURLs,
          email \in DownloadEmails :
          download' = [download EXCEPT ![d] =
              IF method # "POST"
              THEN [@ EXCEPT !.pc = "dh_responded", !.code = 405,
                             !.err = "Method not allowed"]
              ELSE IF ~jsonOk
              THEN [@ EXCEPT !.pc = "dh_responded", !.code = 400,
                             !.err = "Invalid JSON payload"]
              ELSE IF url = EmptyStr
              THEN [@ EXCEPT !.pc = "dh_responded", !.code = 400, !.url = url,
                             !.email = email, !.err = "URL is required"]
              ELSE IF email = EmptyStr
              THEN [@ EXCEPT !.pc = "dh_responded", !.code = 400, !.url = url,
                             !.email = email,
                             !.err = "Email is required for file storage"]
              ELSE [@ EXCEPT !.pc = "dh_rlock", !.url = url, !.email = email]]
    /\ UNCHANGED <<DlOther, contextMux, files>>

\* contextMux.RLock() in downloadHandler
downloadHandler_RLock(d) ==
    /\ download[d].pc = "dh_rlock"
    /\ CanRLock
    /\ contextMux' = RLocked(Did(d))
    /\ download' = [download EXCEPT ![d].pc = "dh_read"]
    /\ UNCHANGED <<DlOther, files>>

\* loggedIn := isLoggedIn; email := currentUserEmail; contextMux.RUnlock()
downloadHandler_Read(d) ==
    /\ download[d].pc = "dh_read"
    /\ download' = [download EXCEPT ![d].pc = "dh_decide",
                                    ![d].loggedIn = isLoggedIn,
                                    ![d].userEmail = currentUserEmail]
    /\ contextMux' = RUnlocked(Did(d))
    /\ UNCHANGED <<DlOther, files>>

\* the e-mail downloadHandler hands to generateR2Path
keyEmail(d) == download[d].userEmail

\* mutant: the task is spawned without looking at loggedIn
downloadHandler_Respond_NoCheck(d) ==
    /\ download[d].pc = "dh_decide"
    /\ download' = [download EXCEPT ![d] =
          [@ EXCEPT !.pc = "pd_start", !.code = 200, !.spawned = @ + 1,
                    !.file = generateR2Path(download[d].url, keyEmail(d)).fullURL,
                    !.r2Key = generateR2Path(download[d].url, keyEmail(d)).objectKey]]
    /\ UNCHANGED <<DlOther, contextMux, files>>

\* mutant: the key also depends on the session: the e-mail enters it only once a
\* login has succeeded
downloadHandler_Respond_SessionKey(d) ==
    /\ download[d].pc = "dh_decide"
    /\ download' = [download EXCEPT ![d] =
          IF ~download[d].loggedIn
          THEN [@ EXCEPT !.pc = "dh_responded", !.code = 401,
                         !.err = "Not logged in. Please login first."]
          ELSE [@ EXCEPT !.pc = "pd_start", !.code = 200, !.spawned = @ + 1,
                         !.file = generateR2Path(download[d].url,
                                     IF lastLogin = "ok" THEN keyEmail(d)
                                     ELSE EmptyStr).fullURL,
                         !.r2Key = generateR2Path(download[d].url,
                                     IF lastLogin = "ok" THEN keyEmail(d)
                                     ELSE EmptyStr).objectKey]]
    /\ UNCHANGED <<DlOther, contextMux, files>>

\* mutant: the location in the answer is computed from the e-mail of the request,
\* the key of the task from the e-mail of the session
downloadHandler_Respond_OtherKey(d) ==
    /\ download[d].pc = "dh_decide"
    /\ download' = [download EXCEPT ![d] =
          IF ~download[d].loggedIn
          THEN [@ EXCEPT !.pc = "dh_responded", !.code = 401,
                         !.err = "Not logged in. Please login first."]
          ELSE [@ EXCEPT !.pc = "pd_start", !.code = 200, !.spawned = @ + 1,
                         !.file = generateR2Path(download[d].url, download[d].email).fullURL,
                         !.r2Key = generateR2Path(download[d].url, keyEmail(d)).objectKey]]
    /\ UNCHANGED <<DlOther, contextMux, files>>

\* generateR2Path over the urls a request can carry past the field checks and the
\* values currentUserEmail can have, computed once
r2Paths ==
    [u \in DownloadURLs \ {EmptyStr}, e \in KeyEmails |-> generateR2Path(u, e)]

\* 401 when not logged in; else generateR2Path, go processDownload(req.URL, r2ObjectKey)
\* and the "Download started" answer with the predicted location
downloadHandler_Respond(d) ==
    /\ download[d].pc = "dh_decide"
    /\ download' = [download EXCEPT ![d] =
          IF ~download[d].loggedIn
          THEN [@ EXCEPT !.pc = "dh_responded", !.code = 401,
                         !.err = "Not logged in. Please login first."]
          ELSE [@ EXCEPT !.pc = "pd_start", !.code = 200, !.spawned = @ + 1,
                         !.file = r2Paths[download[d].url, keyEmail(d)].fullURL,
                         !.r2Key = r2Paths[download[d].url, keyEmail(d)].objectKey]]
    /\ UNCHANGED <<DlOther, contextMux, files>>

(***************************************************************************)
(* The background task: processDownload -> runDownload, uploadToR2, Remove *)
(***************************************************************************)
\* mutant: runDownload reads the context without waiting for the lock
runDownload_RLock_NoWait(d) ==
    /\ download[d].pc = "pd_start"
    /\ contextMux' = RLocked(Did(d))
    /\ download' = [download EXCEPT ![d].pc = "rd_copy"]
    /\ UNCHANGED <<DlOther, files>>

\* runDownload: contextMux.RLock()
runDownload_RLock(d) ==
    /\ download[d].pc = "pd_start"
    /\ CanRLock
    /\ contextMux' = RLocked(Did(d))
    /\ download' = [download EXCEPT ![d].pc = "rd_copy"]
    /\ UNCHANGED <<DlOther, files>>

\* currentContext := browserContext; contextMux.RUnlock()
\* mutant: runDownload keeps the shared lock after copying the context
runDownload_CopyContext_KeepLock(d) ==
    /\ download[d].pc = "rd_copy"
    /\ download' = [download EXCEPT ![d].pc = "rd_newpage",
                                    ![d].currentContext = browserContext]
    /\ UNCHANGED <<DlOther, contextMux, files>>

runDownload_CopyContext(d) ==
    /\ download[d].pc = "rd_copy"
    /\ download' = [download EXCEPT ![d].pc = "rd_newpage",
                                    ![d].currentContext = browserContext]
    /\ contextMux' = RUnlocked(Did(d))
    /\ UNCHANGED <<DlOther, files>>

\* mutant: a failed step still hands over to the upload
DownloadStep_Upload(d, from, to, errmsg) ==
    /\ download[d].pc = from
    /\ \E ok \in BOOLEAN :
          download' = [download EXCEPT ![d] =
              IF ok THEN [@ EXCEPT !.pc = to]
              ELSE [@ EXCEPT !.pc = "pd_upload"]]
    /\ UNCHANGED <<DlOther, contextMux, files>>

\* mutant: a failed step sends the run back to the page creation
DownloadStep_Rerun(d, from, to, errmsg) ==
    /\ download[d].pc = from
    /\ \E ok \in BOOLEAN :
          download' = [download EXCEPT ![d] =
              IF ok THEN [@ EXCEPT !.pc = to]
              ELSE [@ EXCEPT !.pc = "rd_newpage"]]
    /\ UNCHANGED <<DlOther, contextMux, files>>

\* one step of runDownload that either succeeds or makes runDownload return an error
\* (errmsg), which processDownload logs
DownloadStep(d, from, to, errmsg) ==
    /\ download[d].pc = from
    /\ \E ok \in BOOLEAN :
          download' = [download EXCEPT ![d] =
              IF ok THEN [@ EXCEPT !.pc = to]
              ELSE [@ EXCEPT !.pc = "pd_failed"]]
    /\ UNCHANGED <<DlOther, contextMux, files>>

\* page, err := currentContext.NewPage()
runDownload_NewPage(d) ==
    DownloadStep(d, "rd_newpage", "rd_script", "failed to create new page")

\* page.AddInitScript(...)
runDownload_AddInitScript(d) ==
    DownloadStep(d, "rd_script", "rd_mkdir", "failed to inject stealth scripts")

\* os.MkdirAll(downloadPath)
runDownload_MkdirAll(d) ==
    DownloadStep(d, "rd_mkdir", "rd_goto", "failed to create download directory")

\* page.Goto(targetURL, networkidle)
runDownload_Goto(d) ==
    DownloadStep(d, "rd_goto", "rd_title", "failed to navigate to page")

BlockTitles == {"Access Denied", "Just a moment..."}
Titles == BlockTitles \cup {"Red fox"}

\* mutant: only the first block title is recognised
isBlocked_FirstOnly(title) == title = "Access Denied"

\* title == "Access Denied" || title == "Just a moment..."
isBlocked(title) == title \in BlockTitles

\* title, err := page.Title(); the anti-bot check
runDownload_Title(d) ==
    /\ download[d].pc = "rd_title"
    /\ \E ok \in BOOLEAN, title \in Titles :
          download' = [download EXCEPT ![d] =
              IF ~ok
              THEN [@ EXCEPT !.pc = "pd_failed"]
              ELSE IF isBlocked(title)
              THEN [@ EXCEPT !.pc = "pd_failed", !.title = title]
              ELSE [@ EXCEPT !.pc = "rd_visible", !.title = title]]
    /\ UNCHANGED <<DlOther, contextMux, files>>

\* mutant: the capture is armed whether the control is visible or not
runDownload_IsVisible_Ignore(d) ==
    /\ download[d].pc = "rd_visible"
    /\ \E visible \in BOOLEAN :
          download' = [download EXCEPT ![d].pc = "rd_expect",
                                       ![d].visible = IF visible THEN "yes" ELSE "no"]
    /\ UNCHANGED <<DlOther, contextMux, files>>

\* visible, _ := page.IsVisible(downloadButtonSelector); "download button not found"
\* when it is not
runDownload_IsVisible(d) ==
    /\ download[d].pc = "rd_visible"
    /\ \E visible \in BOOLEAN :
          download' = [download EXCEPT ![d] =
              IF visible THEN [@ EXCEPT !.pc = "rd_expect", !.visible = "yes"]
              ELSE [@ EXCEPT !.pc = "pd_failed", !.visible = "no"]]
    /\ UNCHANGED <<DlOther, contextMux, files>>

\* page.ExpectDownload(func() { page.Click(downloadButtonSelector) })
runDownload_ExpectDownload(d) ==
    DownloadStep(d, "rd_expect", "rd_save", "failed to click download button")

\* filename := download.SuggestedFilename(); download.SaveAs(saveFileTo);
\* runDownload returns saveFileTo
runDownload_SaveAs(d) ==
    /\ download[d].pc = "rd_save"
    /\ \E ok \in BOOLEAN, filename \in Filenames :
          IF ok
          THEN /\ files' = files \cup {StagedPath(filename)}
               /\ download' = [download EXCEPT ![d].pc = "pd_upload",
                                  ![d].localFilePath = StagedPath(filename)]
          ELSE /\ files' = files
               /\ download' = [download EXCEPT ![d].pc = "pd_failed"]
    /\ UNCHANGED <<DlOther, contextMux>>

\* uploadToR2(localPath, objectKey): load the client configuration, os.Open(localPath),
\* PutObject(bucket, objectKey, file); any error is returned
uploadToR2(d, localPath, objectKey) ==
    /\ \E cfgOk \in BOOLEAN, putOk \in BOOLEAN :
          download' = [download EXCEPT ![d] =
              IF cfgOk /\ localPath \in files /\ putOk
              THEN [@ EXCEPT !.pc = "pd_remove", !.uploads = @ + 1,
                             !.uploadPath = localPath, !.uploadKey = objectKey]
              ELSE [@ EXCEPT !.pc = "pd_failed", !.uploads = @ + 1,
                             !.uploadPath = localPath, !.uploadKey = objectKey]]
    /\ UNCHANGED <<DlOther, contextMux, files>>

\* the local path processDownload hands to uploadToR2
uploadArgument(d) == AsPath(download[d].url)

\* processDownload: uploadToR2(targetURL, r2Key); on error log and return
processDownload_Upload(d) ==
    /\ download[d].pc = "pd_upload"
    /\ uploadToR2(d, uploadArgument(d), download[d].r2Key)

\* processDownload: os.Remove(localFilePath), reached only after a successful upload
processDownload_Remove(d) ==
    /\ download[d].pc = "pd_remove"
    /\ files' = files \ {download[d].localFilePath}
    /\ download' = [download EXCEPT ![d].pc = "pd_done", ![d].removed = @ + 1]
    /\ UNCHANGED <<DlOther, contextMux>>

\* the request and its task are over; the slot serves the next request
processDownload_Done(d) ==
    /\ download[d].pc \in {"dh_responded", "pd_failed", "pd_done"}
    /\ download' = [download EXCEPT ![d] = IdleDownload]
    /\ UNCHANGED <<DlOther, contextMux, files>>

\* the steps of a download request and of its task once downloadHandler has taken it
DownloadRun(d) ==
    \/ downloadHandler_RLock(d)
    \/ downloadHandler_Read(d)
    \/ downloadHandler_Respond(d)
    \/ runDownload_RLock(d)
    \/ runDownload_CopyContext(d)
    \/ runDownload_NewPage(d)
    \/ runDownload_AddInitScript(d)
    \/ runDownload_MkdirAll(d)
    \/ runDownload_Goto(d)
    \/ runDownload_Title(d)
    \/ runDownload_IsVisible(d)
    \/ runDownload_ExpectDownload(d)
    \/ runDownload_SaveAs(d)
    \/ processDownload_Upload(d)
    \/ processDownload_Remove(d)

DownloadNext(d) ==
    \/ downloadHandler(d)
    \/ DownloadRun(d)
    \/ processDownload_Done(d)

(***************************************************************************)
(* GET /status                                                             *)
(***************************************************************************)
StOther == <<mainPc, browserContext, isLoggedIn, currentUserEmail, stateFile, files,
             login, download, lastLogin, env, uploader>>

\* statusHandler: method check
statusHandler ==
    /\ Serving
    /\ status.pc = "idle"
    /\ \E method \in Methods :
          status' = IF method # "GET"
                    THEN [status EXCEPT !.pc = "sh_responded", !.code = 405]
                    ELSE [status EXCEPT !.pc = "sh_rlock"]
    /\ UNCHANGED <<StOther, contextMux>>

\* mutant: statusHandler answers without taking the lock
statusHandler_RLock_Skip ==
    /\ status.pc = "sh_rlock"
    /\ status' = [status EXCEPT !.pc = "sh_respond"]
    /\ UNCHANGED <<StOther, contextMux>>

\* contextMux.RLock(); defer contextMux.RUnlock()
statusHandler_RLock ==
    /\ status.pc = "sh_rlock"
    /\ CanRLock
    /\ contextMux' = RLocked(Sid)
    /\ status' = [status EXCEPT !.pc = "sh_respond"]
    /\ UNCHANGED StOther

\* jsonResponse({"logged_in": isLoggedIn, "status": "ready"})
statusHandler_Respond ==
    /\ status.pc = "sh_respond"
    /\ status' = [status EXCEPT !.pc = "sh_responded", !.code = 200,
                                !.logged_in = isLoggedIn]
    /\ UNCHANGED <<StOther, contextMux>>

\* the handler returns: the deferred RUnlock runs when the lock was taken
statusHandler_Return ==
    /\ status.pc = "sh_responded"
    /\ contextMux' = RUnlocked(Sid)
    /\ status' = IdleStatus
    /\ UNCHANGED StOther

StatusNext ==
    \/ statusHandler
    \/ statusHandler_RLock
    \/ statusHandler_Respond
    \/ statusHandler_Return

Next ==
    \/ main
    \/ \E l \in LoginReqs : LoginNext(l)
    \/ \E d \in DownloadReqs : DownloadNext(d)
    \/ StatusNext

Spec == Init /\ [][Next]_vars

\* logins only
NextLogin ==
    \/ main
    \/ \E l \in LoginReqs : LoginNext(l)

SpecLogin == Init /\ [][NextLogin]_vars

\* downloads only (the session is the one the process started with)
NextDownload ==
    \/ main
    \/ \E d \in DownloadReqs : DownloadNext(d)

SpecDownload == Init /\ [][NextDownload]_vars

\* one login, one download and one status poll at a time
NextMixed ==
    \/ main
    \/ LoginNext(1)
    \/ DownloadNext(1)
    \/ StatusNext

SpecMixed == Init /\ [][NextMixed]_vars

\* one login at a time, the page after the submit kept with the request
NextClassify ==
    \/ main
    \/ loginHandler(1)
    \/ loginHandler_Lock(1)
    \/ loginHandler_SetEmail(1)
    \/ performLogin_Lock(1)
    \/ performLogin_NewPage(1)
    \/ performLogin_AddInitScript(1)
    \/ performLogin_Goto(1)
    \/ performLogin_ClickSignIn(1)
    \/ performLogin_ClickContinue(1)
    \/ performLogin_FillEmail(1)
    \/ performLogin_FillPassword(1)
    \/ performLogin_Checkbox(1)
    \/ performLogin_ClickSubmit(1)
    \/ performLogin_ClassifyView(1)
    \/ performLogin_StorageState(1)
    \/ performLogin_SetLoggedIn(1)
    \/ performLogin_Return(1)
    \/ loginHandler_Respond(1)
    \/ loginHandler_Done(1)

SpecClassify == Init /\ [][NextClassify]_vars

\* one login and one download at a time, every started request scheduled: a
\* goroutine that can run does run, each collaborator call returns, and a goroutine
\* blocked in Lock() or RLock() gets the lock once it is free often enough
\* (sync.RWMutex wakes the blocked readers at Unlock and holds new readers back
\* while a writer waits)
NextLive ==
    \/ main
    \/ LoginNext(1)
    \/ DownloadNext(1)

SpecLive ==
    /\ Init
    /\ [][NextLive]_vars
    /\ SF_vars(LoginRun(1))
    /\ SF_vars(DownloadRun(1))

(***************************************************************************)
(* The process ends (killed, crashed, or exited by log.Fatalf) and is      *)
(* started again: the package variables are back at their zero values and  *)
(* every request and task of the old process is gone; the storage-state    *)
(* file and the local files stay on disk.  lastLogin is history, not       *)
(* memory of the process, and is kept.                                     *)
(***************************************************************************)
restart ==
    /\ mainPc # "boot"
    /\ mainPc' = "boot"
    /\ browserContext' = "nil"
    /\ isLoggedIn' = FALSE
    /\ currentUserEmail' = EmptyStr
    /\ contextMux' = [w |-> NoOne, r |-> {}]
    /\ login' = [l \in LoginReqs |-> IdleLogin]
    /\ download' = [d \in DownloadReqs |-> IdleDownload]
    /\ status' = IdleStatus
    /\ uploader' = "nil"
    /\ UNCHANGED <<stateFile, files, lastLogin, env>>

\* the first start of the process on a machine: no storage-state file yet
InitFirstRun == Init /\ stateFile = "absent"

\* one login and one download at a time, over restarts of the process
NextRestart ==
    \/ main
    \/ LoginNext(1)
    \/ DownloadNext(1)
    \/ restart

SpecRestart == InitFirstRun /\ [][NextRestart]_vars

\* a /download request as far as its answer and the start of its task: the task
\* takes the context and asks for its page; a task that got its page goes on for
\* as long as the requests under study take
DownloadStart(d) ==
    \/ downloadHandler(d)
    \/ downloadHandler_RLock(d)
    \/ downloadHandler_Read(d)
    \/ downloadHandler_Respond(d)
    \/ runDownload_RLock(d)
    \/ runDownload_CopyContext(d)
    \/ runDownload_NewPage(d)
    \/ processDownload_Done(d)

\* one login at a time beside all the download slots
NextSession ==
    \/ main
    \/ LoginNext(1)
    \/ \E d \in DownloadReqs : DownloadStart(d)

SpecSession == Init /\ [][NextSession]_vars

(***************************************************************************)
(* generateR2Path on its own: each slot holds one call of it, as            *)
(* downloadHandler makes it, with arguments drawn from KeyURLs, KeyEmails.  *)
(***************************************************************************)
KeyCall(u, e) == [IdleDownload EXCEPT !.pc = "key_call", !.url = u, !.userEmail = e]

InitKey ==
    /\ mainPc = "serving"
    /\ browserContext \in {"stored", "fresh"}
    /\ isLoggedIn = (browserContext = "stored")
    /\ currentUserEmail = EmptyStr
    /\ contextMux = [w |-> NoOne, r |-> {}]
    /\ stateFile = IF isLoggedIn THEN "present" ELSE "absent"
    /\ files = {AsPath(UrlCat)}
    /\ login = [l \in LoginReqs |-> IdleLogin]
    /\ download \in [DownloadReqs -> {KeyCall(u, e) : u \in KeyURLs, e \in KeyEmails}]
    /\ status = IdleStatus
    /\ lastLogin = "none"
    /\ env = R2Credentials
    /\ uploader = "nil"

\* fileURL, r2ObjectKey := generateR2Path(req.URL, email)
callGenerateR2Path(d) ==
    /\ download[d].pc = "key_call"
    /\ download' = [download EXCEPT ![d] =
          [@ EXCEPT !.pc = "key_done",
                    !.file = generateR2Path(download[d].url, keyEmail(d)).fullURL,
                    !.r2Key = generateR2Path(download[d].url, keyEmail(d)).objectKey]]
    /\ UNCHANGED <<DlOther, contextMux, files>>

NextKey == \E d \in DownloadReqs : callGenerateR2Path(d)

SpecKey == InitKey /\ [][NextKey]_vars

(***************************************************************************)
(* The variant that builds the R2 uploader at startup and stages each      *)
(* download in a temporary file (src/unnamed/part_000).  Its main begins   *)
(* with initR2Client and goes on as main above; its requests carry a url   *)
(* only; its runDownload has the same statements as above up to the        *)
(* capture, without the download directory, and then stages, uploads and   *)
(* cleans up by itself.                                                    *)
(***************************************************************************)
\* mutant: initR2Client goes on with credentials missing
initR2Client_NoCheck ==
    /\ mainPc = "start"
    /\ \E cfgOk \in BOOLEAN :
          IF ~cfgOk
          THEN mainPc' = "dead" /\ uploader' = uploader
          ELSE mainPc' = "boot" /\ uploader' = "ready"
    /\ UNCHANGED <<browserContext, isLoggedIn, currentUserEmail, contextMux, stateFile,
                   files, login, download, status, lastLogin, env>>

\* main: initR2Client(); log.Fatalf when a credential is missing or the
\* configuration does not load, else the uploader is built
initR2Client ==
    /\ mainPc = "start"
    /\ \E cfgOk \in BOOLEAN :
          IF env # R2Credentials \/ ~cfgOk
          THEN mainPc' = "dead" /\ uploader' = uploader
          ELSE mainPc' = "boot" /\ uploader' = "ready"
    /\ UNCHANGED <<browserContext, isLoggedIn, currentUserEmail, contextMux, stateFile,
                   files, login, download, status, lastLogin, env>>

\* the process starts with any of the credentials set or not
InitStartup ==
    /\ mainPc = "start"
    /\ browserContext = "nil"
    /\ isLoggedIn = FALSE
    /\ currentUserEmail = EmptyStr
    /\ contextMux = [w |-> NoOne, r |-> {}]
    /\ stateFile \in {"absent", "present"}
    /\ files = {}
    /\ login = [l \in LoginReqs |-> IdleLogin]
    /\ download = [d \in DownloadReqs |-> IdleDownload]
    /\ status = IdleStatus
    /\ lastLogin = "none"
    /\ env \in SUBSET R2Credentials
    /\ uploader = "nil"

\* downloadHandler up to RLock(): method check, JSON decoding, the url
downloadHandler_URL(d) ==
    /\ Serving
    /\ download[d].pc = "idle"
    /\ \E method \in Methods, jsonOk \in BOOLEAN, url \in DownloadURLs :
          download' = [download EXCEPT ![d] =
              IF method # "POST"
              THEN [@ EXCEPT !.pc = "dh_responded", !.code = 405,
                             !.err = "Method not allowed"]
              ELSE IF ~jsonOk
              THEN [@ EXCEPT !.pc = "dh_responded", !.code = 400,
                             !.err = "Invalid JSON payload"]
              ELSE IF url = EmptyStr
              THEN [@ EXCEPT !.pc = "dh_responded", !.code = 400, !.url = url,
                             !.err = "URL is required"]
              ELSE [@ EXCEPT !.pc = "dh_rlock", !.url = url]]
    /\ UNCHANGED <<DlOther, contextMux, files>>

\* 401 when not logged in; else go processDownload(req.URL) and "Download started"
downloadHandler_Started(d) ==
    /\ download[d].pc = "dh_decide"
    /\ download' = [download EXCEPT ![d] =
          IF ~download[d].loggedIn
          THEN [@ EXCEPT !.pc = "dh_responded", !.code = 401,
                         !.err = "Not logged in. Please login first."]
          ELSE [@ EXCEPT !.pc = "pd_start", !.code = 200, !.spawned = @ + 1]]
    /\ UNCHANGED <<DlOther, contextMux, files>>

\* page.AddInitScript(...); the navigation is the next step
runDownload_AddInitScript_Goto(d) ==
    DownloadStep(d, "rd_script", "rd_goto", "failed to inject stealth scripts")

\* page.ExpectDownload(...); the temporary file is the next step
runDownload_ExpectDownload_Temp(d) ==
    DownloadStep(d, "rd_expect", "rt_temp", "failed to click download button")

\* the name os.CreateTemp gives the file of run d
TempPath(d) == <<"tmp", d>>

\* tmpFile, err := os.CreateTemp("", "freepik-*"); defer os.Remove(tmpPath)
runDownload_CreateTemp(d) ==
    /\ download[d].pc = "rt_temp"
    /\ \E ok \in BOOLEAN :
          IF ok
          THEN /\ files' = files \cup {TempPath(d)}
               /\ download' = [download EXCEPT ![d].pc = "rt_save",
                                               ![d].localFilePath = TempPath(d)]
          ELSE /\ files' = files
               /\ download' = [download EXCEPT ![d].pc = "pd_failed"]
    /\ UNCHANGED <<DlOther, contextMux>>

\* a step after the temporary file exists: on error runDownload returns the error
\* through its deferred calls
TempStep(d, from, to, errmsg) ==
    /\ download[d].pc = from
    /\ \E ok \in BOOLEAN :
          download' = [download EXCEPT ![d].pc = IF ok THEN to ELSE "rt_return_err"]
    /\ UNCHANGED <<DlOther, contextMux, files>>

\* download.SaveAs(tmpPath)
runDownload_SaveAsTemp(d) == TempStep(d, "rt_save", "rt_open", "failed to save download")

\* file, err := os.Open(tmpPath); defer file.Close()
runDownload_OpenTemp(d) ==
    /\ download[d].pc = "rt_open"
    /\ \E ok \in BOOLEAN :
          download' = [download EXCEPT ![d] =
              IF ok THEN [@ EXCEPT !.pc = "rt_upload", !.handle = "open"]
              ELSE [@ EXCEPT !.pc = "rt_return_err"]]
    /\ UNCHANGED <<DlOther, contextMux, files>>

\* mutant: an upload error ends the run at once, past the deferred calls
uploadToR2_Reader_NoDefer(d) ==
    /\ download[d].pc = "rt_upload"
    /\ uploader = "ready"
    /\ \E ok \in BOOLEAN :
          download' = [download EXCEPT ![d] =
              [@ EXCEPT !.pc = IF ok THEN "rt_return_ok" ELSE "pd_failed",
                        !.uploads = @ + 1, !.uploadPath = download[d].localFilePath]]
    /\ UNCHANGED <<DlOther, contextMux, files>>

\* r2URL, err := uploadToR2(file, filename): one uploader.Upload of the open file
uploadToR2_Reader(d) ==
    /\ download[d].pc = "rt_upload"
    /\ uploader = "ready"
    /\ \E ok \in BOOLEAN :
          download' = [download EXCEPT ![d] =
              [@ EXCEPT !.pc = IF ok THEN "rt_return_ok" ELSE "rt_return_err",
                        !.uploads = @ + 1, !.uploadPath = download[d].localFilePath]]
    /\ UNCHANGED <<DlOther, contextMux, files>>

\* runDownload returns: the deferred calls run last-in first-out, file.Close()
\* first when the file was opened
runDownload_DeferredClose(d) ==
    /\ download[d].pc \in {"rt_return_ok", "rt_return_err"}
    /\ download[d].handle = "open"
    /\ download' = [download EXCEPT ![d].handle = "closed"]
    /\ UNCHANGED <<DlOther, contextMux, files>>

\* mutant: the temporary file is removed while the handle is still open
runDownload_Deferred_BeforeClose(d) ==
    /\ download[d].pc \in {"rt_return_ok", "rt_return_err"}
    /\ files' = files \ {download[d].localFilePath}
    /\ download' = [download EXCEPT
          ![d].pc = IF download[d].pc = "rt_return_ok" THEN "pd_done" ELSE "pd_failed",
          ![d].removed = @ + 1]
    /\ UNCHANGED <<DlOther, contextMux>>

\* then the deferred os.Remove(tmpPath) and page.Close()
runDownload_Deferred(d) ==
    /\ download[d].pc \in {"rt_return_ok", "rt_return_err"}
    /\ download[d].handle # "open"
    /\ files' = files \ {download[d].localFilePath}
    /\ download' = [download EXCEPT
          ![d].pc = IF download[d].pc = "rt_return_ok" THEN "pd_done" ELSE "pd_failed",
          ![d].removed = @ + 1]
    /\ UNCHANGED <<DlOther, contextMux>>

StreamDownloadNext(d) ==
    \/ downloadHandler_URL(d)
    \/ downloadHandler_RLock(d)
    \/ downloadHandler_Read(d)
    \/ downloadHandler_Started(d)
    \/ runDownload_RLock(d)
    \/ runDownload_CopyContext(d)
    \/ runDownload_NewPage(d)
    \/ runDownload_AddInitScript_Goto(d)
    \/ runDownload_Goto(d)
    \/ runDownload_Title(d)
    \/ runDownload_IsVisible(d)
    \/ runDownload_ExpectDownload_Temp(d)
    \/ runDownload_CreateTemp(d)
    \/ runDownload_SaveAsTemp(d)
    \/ runDownload_OpenTemp(d)
    \/ uploadToR2_Reader(d)
    \/ runDownload_DeferredClose(d)
    \/ runDownload_Deferred(d)
    \/ processDownload_Done(d)

\* startup and downloads of the variant
NextStream ==
    \/ initR2Client
    \/ main
    \/ \E d \in DownloadReqs : StreamDownloadNext(d)

SpecStream == InitStartup /\ [][NextStream]_vars

(***************************************************************************)
(* The variant with one browser for the process and one browser context    *)
(* per download run (src/main.go, first program).  There is no login and   *)
(* no session: main launches the browser, downloadHandler spawns the task  *)
(* for every well-formed request, runDownload creates its context, drives  *)
(* its page, saves the file and closes the context by defer.               *)
(***************************************************************************)
\* the process starts; nothing is on disk that the variant looks at
InitBrowser ==
    /\ mainPc = "boot"
    /\ browserContext = "nil"
    /\ isLoggedIn = FALSE
    /\ currentUserEmail = EmptyStr
    /\ contextMux = [w |-> NoOne, r |-> {}]
    /\ stateFile = "absent"
    /\ files = {}
    /\ login = [l \in LoginReqs |-> IdleLogin]
    /\ download = [d \in DownloadReqs |-> IdleDownload]
    /\ status = IdleStatus
    /\ lastLogin = "none"
    /\ env = {}
    /\ uploader = "nil"

\* main: playwright.Run(), Chromium.Launch(); log.Fatalf on error, else the server
main_Launch ==
    /\ mainPc = "boot"
    /\ \E ok \in BOOLEAN : mainPc' = IF ok THEN "serving" ELSE "dead"
    /\ UNCHANGED <<browserContext, isLoggedIn, currentUserEmail, contextMux, stateFile,
                   files, login, download, status, lastLogin, env, uploader>>

\* downloadHandler: method check, JSON decoding, the url; go processDownload(req.URL)
\* and "Download started in background"
downloadHandler_Spawn(d) ==
    /\ Serving
    /\ download[d].pc = "idle"
    /\ \E method \in Methods, jsonOk \in BOOLEAN, url \in DownloadURLs :
          download' = [download EXCEPT ![d] =
              IF method # "POST"
              THEN [@ EXCEPT !.pc = "dh_responded", !.code = 405,
                             !.err = "Method not allowed"]
              ELSE IF ~jsonOk
              THEN [@ EXCEPT !.pc = "dh_responded", !.code = 400,
                             !.err = "Invalid JSON payload"]
              ELSE IF url = EmptyStr
              THEN [@ EXCEPT !.pc = "dh_responded", !.code = 400, !.url = url,
                             !.err = "URL is required"]
              ELSE [@ EXCEPT !.pc = "pd_start", !.code = 200, !.url = url,
                             !.spawned = @ + 1]]
    /\ UNCHANGED <<DlOther, contextMux, files>>

\* the context objects the browser can hand out
Contexts == {"c1", "c2", "c3"}

\* the contexts created by runs and not closed
OpenContexts ==
    {download[e].currentContext :
        e \in {x \in DownloadReqs : /\ download[x].currentContext \in Contexts
                                     /\ download[x].contextCloses = 0}}

\* mutant: every run gets the same context object
runDownload_NewContext_Same(d) ==
    /\ download[d].pc = "pd_start"
    /\ \E ok \in BOOLEAN :
          download' = [download EXCEPT ![d] =
              IF ok THEN [@ EXCEPT !.pc = "rc_newpage", !.currentContext = "c1"]
              ELSE [@ EXCEPT !.pc = "pd_failed"]]
    /\ UNCHANGED <<DlOther, contextMux, files>>

\* context, err := browser.NewContext(...): a new object; defer context.Close()
runDownload_NewContext(d) ==
    /\ download[d].pc = "pd_start"
    /\ \E ok \in BOOLEAN, c \in Contexts \ OpenContexts :
          download' = [download EXCEPT ![d] =
              IF ok THEN [@ EXCEPT !.pc = "rc_newpage", !.currentContext = c]
              ELSE [@ EXCEPT !.pc = "pd_failed"]]
    /\ UNCHANGED <<DlOther, contextMux, files>>

\* mutant: a failed step ends the run without the deferred call
ContextStep_NoClose(d, from, to, errmsg) ==
    /\ download[d].pc = from
    /\ \E ok \in BOOLEAN :
          download' = [download EXCEPT ![d].pc = IF ok THEN to ELSE "pd_failed"]
    /\ UNCHANGED <<DlOther, contextMux, files>>

\* a step of runDownload after the context exists: on error runDownload returns
\* the error through its deferred context.Close()
ContextStep(d, from, to, errmsg) ==
    /\ download[d].pc = from
    /\ \E ok \in BOOLEAN :
          download' = [download EXCEPT ![d].pc = IF ok THEN to ELSE "rc_return_err"]
    /\ UNCHANGED <<DlOther, contextMux, files>>

\* page, err := context.NewPage()
runDownload_ContextNewPage(d) ==
    ContextStep(d, "rc_newpage", "rc_script", "failed to create new page")

\* page.AddInitScript(...)
runDownload_ContextAddInitScript(d) ==
    ContextStep(d, "rc_script", "rc_mkdir", "failed to inject stealth scripts")

\* os.MkdirAll(downloadPath)
runDownload_ContextMkdirAll(d) ==
    ContextStep(d, "rc_mkdir", "rc_goto", "failed to create download directory")

\* page.Goto(targetURL, networkidle)
runDownload_ContextGoto(d) ==
    ContextStep(d, "rc_goto", "rc_title", "failed to navigate to page")

\* title, err := page.Title(); the anti-bot check
runDownload_ContextTitle(d) ==
    /\ download[d].pc = "rc_title"
    /\ \E ok \in BOOLEAN, title \in Titles :
          download' = [download EXCEPT ![d] =
              IF ~ok
              THEN [@ EXCEPT !.pc = "rc_return_err"]
              ELSE IF isBlocked(title)
              THEN [@ EXCEPT !.pc = "rc_return_err", !.title = title]
              ELSE [@ EXCEPT !.pc = "rc_visible", !.title = title]]
    /\ UNCHANGED <<DlOther, contextMux, files>>

\* visible, _ := page.IsVisible(downloadButtonSelector)
runDownload_ContextIsVisible(d) ==
    /\ download[d].pc = "rc_visible"
    /\ \E visible \in BOOLEAN :
          download' = [download EXCEPT ![d] =
              IF visible THEN [@ EXCEPT !.pc = "rc_expect", !.visible = "yes"]
              ELSE [@ EXCEPT !.pc = "rc_return_err", !.visible = "no"]]
    /\ UNCHANGED <<DlOther, contextMux, files>>

\* page.ExpectDownload(func() { page.Click(downloadButtonSelector) })
runDownload_ContextExpectDownload(d) ==
    ContextStep(d, "rc_expect", "rc_save", "failed to click download button")

\* filename := download.SuggestedFilename(); download.SaveAs(saveFileTo); return nil
runDownload_ContextSaveAs(d) ==
    /\ download[d].pc = "rc_save"
    /\ \E ok \in BOOLEAN, filename \in Filenames :
          IF ok
          THEN /\ files' = files \cup {StagedPath(filename)}
               /\ download' = [download EXCEPT ![d].pc = "rc_return_ok",
                                  ![d].localFilePath = StagedPath(filename)]
          ELSE /\ files' = files
               /\ download' = [download EXCEPT ![d].pc = "rc_return_err"]
    /\ UNCHANGED <<DlOther, contextMux>>

\* runDownload returns: the deferred context.Close()
runDownload_CloseContext(d) ==
    /\ download[d].pc \in {"rc_return_ok", "rc_return_err"}
    /\ download' = [download EXCEPT
          ![d].pc = IF download[d].pc = "rc_return_ok" THEN "pd_done" ELSE "pd_failed",
          ![d].contextCloses = @ + 1]
    /\ UNCHANGED <<DlOther, contextMux, files>>

ContextDownloadNext(d) ==
    \/ downloadHandler_Spawn(d)
    \/ runDownload_NewContext(d)
    \/ runDownload_ContextNewPage(d)
    \/ runDownload_ContextAddInitScript(d)
    \/ runDownload_ContextMkdirAll(d)
    \/ runDownload_ContextGoto(d)
    \/ runDownload_ContextTitle(d)
    \/ runDownload_ContextIsVisible(d)
    \/ runDownload_ContextExpectDownload(d)
    \/ runDownload_ContextSaveAs(d)
    \/ runDownload_CloseContext(d)
    \/ processDownload_Done(d)

\* the browser launch and downloads of the variant
NextContext ==
    \/ main_Launch
    \/ \E d \in DownloadReqs : ContextDownloadNext(d)

SpecContext == InitBrowser /\ [][NextContext]_vars

TypeOK ==
    /\ mainPc \in {"start", "boot", "serving", "dead"}
    /\ browserContext \in {"nil", "stored", "fresh"}
    /\ isLoggedIn \in BOOLEAN
    /\ currentUserEmail \in {EmptyStr, DefaultEmail, EmailA}
    /\ contextMux.w \in {NoOne} \cup {Lid(l) : l \in LoginReqs}
    /\ contextMux.r \subseteq {Sid} \cup {Did(d) : d \in DownloadReqs}
    /\ stateFile \in {"absent", "present"}
    /\ files \subseteq {AsPath(UrlCat)} \cup {StagedPath(f) : f \in Filenames}
                         \cup {TempPath(d) : d \in DownloadReqs}
    /\ lastLogin \in {"none", "ok", "fail"}
    /\ env \subseteq R2Credentials
    /\ uploader \in {"nil", "ready"}


(***************************************************************************)
(* Properties                                                              *)
(***************************************************************************)
\* the steps of performLogin between its Lock() and its return
PerformLoginPcs ==
    {"pl_newpage", "pl_script", "pl_goto", "pl_signin", "pl_continue", "pl_email",
     "pl_password", "pl_checkbox", "pl_submit", "pl_classify", "pl_save", "pl_setflag",
     "pl_return"}

InPerformLogin(l) == login[l].pc \in PerformLoginPcs

\* the steps of runDownload that drive the browser
DrivingPcs ==
    {"rd_newpage", "rd_script", "rd_mkdir", "rd_goto", "rd_title", "rd_visible",
     "rd_expect", "rd_save"}

\* the positions of the background task
TaskPcs ==
    {"pd_start", "rd_copy"} \cup DrivingPcs \cup {"pd_upload", "pd_remove", "pd_done",
                                                  "pd_failed"}

\* the request reached the field checks: POST with a decodable body
WellFormed(d) ==
    download[d].err \notin {"Method not allowed", "Invalid JSON payload"}

\* C1 as stated: while isLoggedIn is false, every /download call that has been
\* answered was answered 401, and no background task exists.
C1_Original ==
    ~isLoggedIn =>
        \A d \in DownloadReqs :
            /\ download[d].pc \notin TaskPcs
            /\ (download[d].pc = "dh_responded" /\ WellFormed(d)) => download[d].code = 401

\* C1 amended: while isLoggedIn is false no background task exists, a call with a
\* non-empty url and a non-empty email is answered 401, and a call that lacks one
\* of them is answered 400.
C1_NotLoggedInRejected ==
    ~isLoggedIn =>
        \A d \in DownloadReqs :
            /\ download[d].pc \notin TaskPcs
            /\ (download[d].pc = "dh_responded" /\ WellFormed(d)) =>
                  download[d].code =
                      IF download[d].url # EmptyStr /\ download[d].email # EmptyStr
                      THEN 401 ELSE 400

\* two concurrent calls with all fields, both answered 401 while not logged in
C1_Witness ==
    /\ Serving
    /\ ~isLoggedIn
    /\ \A d \in DownloadReqs :
          /\ download[d].pc = "dh_responded"
          /\ download[d].code = 401
          /\ download[d].url # EmptyStr

\* C2: at most one performLogin is between its first browser step and its return.
C2_LoginsMutuallyExclusive ==
    \A l1 \in LoginReqs, l2 \in LoginReqs :
        (InPerformLogin(l1) /\ InPerformLogin(l2)) => l1 = l2

\* one login is driving the browser while another waits for the lock
C2_Witness ==
    \E l1 \in LoginReqs, l2 \in LoginReqs :
        login[l1].pc = "pl_goto" /\ login[l2].pc = "pl_lock"

\* C3 as stated: a run that staged a local file has removed it exactly once when
\* it ends, whether the upload succeeded or failed.
C3_StagedFileDeletedOnce ==
    \A d \in DownloadReqs :
        (download[d].pc \in {"pd_done", "pd_failed"} /\ download[d].localFilePath # NoPath)
            => download[d].removed = 1

\* C4 as stated: the local path uploadToR2 opens is the path runDownload returned,
\* and the object is stored under the key computed for the request.
C4_UploadsStagedFile ==
    \A d \in DownloadReqs :
        download[d].uploads > 0 =>
            /\ download[d].uploadPath = download[d].localFilePath
            /\ download[d].uploadKey = download[d].r2Key

\* C5: a run whose page title is a block indicator has failed at the title check:
\* it is at no later step, has staged no file, called no upload, removed nothing.
C5_BlockedNeverProceeds ==
    \A d \in DownloadReqs :
        download[d].title \in BlockTitles =>
            /\ download[d].pc = "pd_failed"
            /\ download[d].localFilePath = NoPath
            /\ download[d].uploads = 0
            /\ download[d].removed = 0

\* a run has read the title "Just a moment..."
C5_Witness ==
    \E d \in DownloadReqs : download[d].title = "Just a moment..."

C7_KeyFromRequestIdentity ==
    \A d \in DownloadReqs :
        download[d].code = 200 =>
            /\ download[d].r2Key =
                   generateR2Path(download[d].url, download[d].email).objectKey
            /\ download[d].file =
                   generateR2Path(download[d].url, download[d].email).fullURL

\* C8: isLoggedIn is read by statusHandler and downloadHandler only while they hold
\* the shared lock, written by performLogin only while it holds the exclusive lock,
\* and the lock is never held by a reader and a writer at once.
C8_NoTornRead ==
    /\ status.pc = "sh_respond" => Sid \in contextMux.r
    /\ \A d \in DownloadReqs : download[d].pc = "dh_read" => Did(d) \in contextMux.r
    /\ \A l \in LoginReqs : login[l].pc = "pl_setflag" => contextMux.w = Lid(l)
    /\ contextMux.r # {} => contextMux.w = NoOne

\* statusHandler and downloadHandler read the flag together while a login waits
C8_Witness ==
    /\ status.pc = "sh_respond"
    /\ \E d \in DownloadReqs : download[d].pc = "dh_read"
    /\ \E l \in LoginReqs : login[l].pc = "pl_lock"

\* C9 as stated: /status reports the outcome of the login that completed last,
\* true after a success and false after a failure.
C9_Original ==
    (status.pc = "sh_responded" /\ status.code = 200) =>
        /\ lastLogin = "ok" => status.logged_in
        /\ lastLogin = "fail" => ~status.logged_in

\* C9 amended: /status reports the flag as it is; it is true once a login has
\* completed successfully, and a login that fails leaves it as it was before.
C9_StatusAfterLogin ==
    /\ (status.pc = "sh_responded" /\ status.code = 200) =>
          /\ status.logged_in = isLoggedIn
          /\ lastLogin = "ok" => status.logged_in
    /\ \A l \in LoginReqs :
          (login[l].pc = "pl_return" /\ login[l].err # "") =>
              isLoggedIn = login[l].before.isLoggedIn

\* /status reports true although the login that completed last failed
C9_Witness ==
    /\ status.pc = "sh_responded"
    /\ status.code = 200
    /\ status.logged_in
    /\ lastLogin = "fail"

\* a performLogin of this request has returned nil
LoginSucceeded(l) == login[l].pc \in {"lh_respond", "lh_responded"} /\ login[l].err = ""

\* C10: once a performLogin has succeeded, isLoggedIn is true and the storage state
\* is persisted, and they stay so while and after further logins run.
C10_LoginIdempotent ==
    (\E l \in LoginReqs : LoginSucceeded(l)) => (isLoggedIn /\ stateFile = "present")

\* two logins with the same e-mail have succeeded one after the other
C10_Witness ==
    /\ \A l \in LoginReqs : LoginSucceeded(l) /\ login[l].email = EmailA
    /\ isLoggedIn
    /\ stateFile = "present"

\* the errors performLogin returns from a step before the storage state is saved
PrePersistErrors ==
    {"failed to create page", "failed to inject stealth scripts",
     "failed to navigate to freepik", "failed to click sign in button",
     "failed to click continue with email button", "failed to fill email",
     "failed to fill password", "failed to click login button",
     "login failed - still on login page", "login failed - error message detected"}

\* C11: when performLogin returns an error of a step before persistence, the
\* logged-in flag, the context reference and the storage-state file are as they
\* were when that performLogin took the lock, and the caller gets the error.
C11_FailedLoginLeavesSession ==
    \A l \in LoginReqs :
        /\ (login[l].pc = "pl_return" /\ login[l].err \in PrePersistErrors) =>
              /\ isLoggedIn = login[l].before.isLoggedIn
              /\ browserContext = login[l].before.browserContext
              /\ stateFile = login[l].before.stateFile
        /\ (login[l].pc = "lh_respond" /\ login[l].err \in PrePersistErrors) =>
              lastLogin # "none"
        /\ (login[l].pc = "lh_responded" /\ login[l].err \in PrePersistErrors) =>
              ~LoginSucceeded(l)

\* a login of a session that was never logged in fails at the classification
C11_Witness ==
    \E l \in LoginReqs :
        /\ login[l].pc = "pl_return"
        /\ login[l].err = "login failed - still on login page"
        /\ ~isLoggedIn
        /\ stateFile = "absent"
        /\ browserContext = "fresh"

\* C12: the flag is set only by the step that follows a StorageState that returned
\* without error (the file is then present and the login holds the exclusive
\* lock); a login whose StorageState failed returns that error with the flag as
\* it was; while the server runs, the flag changes only by that step, to true.
C12_PersistBeforeFlag ==
    /\ [](\A l \in LoginReqs :
             /\ login[l].pc = "pl_setflag" =>
                    (stateFile = "present" /\ contextMux.w = Lid(l) /\ login[l].err = "")
             /\ (login[l].pc = "pl_return" /\ login[l].err = "failed to save storage state")
                    => isLoggedIn = login[l].before.isLoggedIn)
    /\ [][(Serving /\ isLoggedIn' # isLoggedIn) =>
             (isLoggedIn' /\ \E l \in LoginReqs :
                                /\ login[l].pc = "pl_setflag"
                                /\ login'[l].pc = "pl_return")]_vars
    /\ [][\A l \in LoginReqs :
             (login'[l].pc = "pl_setflag" /\ login[l].pc # "pl_setflag") =>
                 (login[l].pc = "pl_save" /\ stateFile' = "present")]_vars

\* a login of a session that was never logged in fails to save the storage state
C12_Witness ==
    \E l \in LoginReqs :
        /\ login[l].pc = "pl_return"
        /\ login[l].err = "failed to save storage state"
        /\ ~isLoggedIn
        /\ stateFile = "absent"

\* C13: the storage state saved by a successful login stays on disk over restarts;
\* a start of the process that loaded it serves with isLoggedIn true with no login
\* run by that process, and /download requests with their fields are then not
\* answered 401 but accepted.
C13_DurableAcrossRestart ==
    /\ lastLogin = "ok" => stateFile = "present"
    /\ (Serving /\ browserContext = "stored") => (isLoggedIn /\ stateFile = "present")
    /\ \A d \in DownloadReqs :
          browserContext = "stored" =>
              /\ download[d].pc = "dh_decide" => download[d].loggedIn
              /\ download[d].code # 401
              /\ (download[d].pc = "dh_responded" /\ WellFormed(d)) => download[d].code = 400

\* after a login succeeded on a machine without a storage state, the process was
\* started again, loaded the file, and has accepted a download with no login
\* running or answered in this process
C13_Witness ==
    /\ lastLogin = "ok"
    /\ Serving
    /\ browserContext = "stored"
    /\ isLoggedIn
    /\ \A l \in LoginReqs : login[l].pc = "idle"
    /\ download[1].pc = "pd_start"
    /\ download[1].code = 200

\* no login of this process has reached the step that sets the flag
NoLoginYet ==
    /\ lastLogin = "none"
    /\ \A l \in LoginReqs : login[l].pc \notin {"pl_return", "lh_respond", "lh_responded"}

\* C14: when the server accepts requests there is one context: the one loaded from
\* the storage-state file, with isLoggedIn true, or a fresh one, with isLoggedIn
\* false until a login sets it; the loaded one exists only if the file does, so
\* with the file absent the context is the fresh one.  The step of main that starts
\* the server leaves the process in one of these two states.
C14_StartupSession ==
    /\ [](Serving =>
             /\ browserContext \in {"stored", "fresh"}
             /\ browserContext = "stored" => (isLoggedIn /\ stateFile = "present")
             /\ (browserContext = "fresh" /\ NoLoginYet) => ~isLoggedIn)
    /\ [](~Serving => (browserContext = "nil" /\ ~isLoggedIn))
    /\ [][(mainPc = "boot" /\ mainPc' = "serving") =>
             \/ stateFile = "present" /\ browserContext' = "stored" /\ isLoggedIn'
             \/ browserContext' = "fresh" /\ ~isLoggedIn']_vars
    /\ [][Serving => browserContext' = browserContext]_vars

\* the file was there at the start but did not load: a fresh context, not logged in
C14_Witness ==
    /\ Serving
    /\ NoLoginYet
    /\ \A l \in LoginReqs : login[l].pc = "idle"
    /\ stateFile = "present"
    /\ browserContext = "fresh"
    /\ ~isLoggedIn

\* performLogin of request l is about to return nil
LoginReturnsNil(l) == login[l].pc = "pl_return" /\ login[l].err = ""

Accepted(d) == download[d].code = 200

lastSegment(u) ==
    Suffix(cutBefore(cutBefore(u, "#"), "?"),
           LastIndexOf(cutBefore(cutBefore(u, "#"), "?"), "/") + 1)

\* the segment without its extension
withoutExtension(seg) ==
    IF LastIndexOf(seg, ".") > 0 THEN Prefix(seg, LastIndexOf(seg, ".") - 1) ELSE seg

\* a numeric id: one digit or more, digits only
isNumericId(part) == Len(part) > 0 /\ \A i \in 1..Len(part) : part[i] \in Digits

\* the name without a trailing "_<numeric id>", and as it is when the part after
\* its last underscore is not a numeric id
withoutNumericId(name) ==
    IF /\ LastIndexOf(name, "_") > 0
       /\ isNumericId(Suffix(name, LastIndexOf(name, "_") + 1))
    THEN Prefix(name, LastIndexOf(name, "_") - 1)
    ELSE name

\* identity/filename as the key format describes it
describedKey(u, e) ==
    QueryEscape(e) \o <<"/">> \o withoutNumericId(withoutExtension(lastSegment(u))) \o DotJpg

\* C17 as stated: the object key of every call is the escaped e-mail, "/", and the
\* last path segment of the url with its extension stripped, a trailing numeric id
\* stripped only when the part after the last underscore is a numeric id, and
\* ".jpg" appended.
C17_KeyFormat ==
    \A d \in DownloadReqs :
        download[d].pc = "key_done" =>
            download[d].r2Key = describedKey(download[d].url, download[d].userEmail)

\* what requests share: the session, the lock, the files, the other requests
Shared(d) ==
    <<browserContext, isLoggedIn, currentUserEmail, stateFile, contextMux, files,
      login, status, [e \in DownloadReqs \ {d} |-> download[e]]>>

FieldsPresent(d) == download[d].url # EmptyStr /\ download[d].email # EmptyStr

\* C20: a decodable POST /download that lacks its url or its e-mail is answered 400
\* and spawns nothing, whatever the session is; only requests with both fields get
\* as far as the session, and those that read isLoggedIn false are answered 401 and
\* spawn nothing.
C20_PreconditionErrors ==
    \A d \in DownloadReqs :
        /\ (download[d].pc = "dh_responded" /\ WellFormed(d) /\ ~FieldsPresent(d)) =>
              (download[d].code = 400 /\ download[d].spawned = 0)
        /\ (download[d].pc = "dh_responded" /\ WellFormed(d) /\ FieldsPresent(d)) =>
              (download[d].code = 401 /\ ~download[d].loggedIn /\ download[d].spawned = 0)
        /\ download[d].pc \in {"dh_rlock", "dh_read", "dh_decide"} \cup TaskPcs =>
              FieldsPresent(d)

\* a request with a url and no e-mail is answered 400 by a logged-in session
C20_Witness ==
    \E d \in DownloadReqs :
        /\ isLoggedIn
        /\ lastLogin = "ok"
        /\ download[d].pc = "dh_responded"
        /\ download[d].code = 400
        /\ download[d].url = UrlFox
        /\ download[d].email = EmptyStr

\* C21: in the variant that configures uploads at startup, with any of the
\* credentials unset the process ends in initR2Client: it never serves and no
\* request is ever taken; whenever requests are served all credentials are set and
\* the uploader is built.
C21_ConfigErrorsFatal ==
    /\ env # R2Credentials =>
          /\ mainPc \in {"start", "dead"}
          /\ uploader = "nil"
          /\ \A d \in DownloadReqs : download[d] = IdleDownload
    /\ Serving => (env = R2Credentials /\ uploader = "ready")
    /\ \A d \in DownloadReqs : Accepted(d) => uploader = "ready"

\* the process has ended at startup with the secret access key unset
C21_Witness ==
    /\ mainPc = "dead"
    /\ env = {"account", "key"}
    /\ browserContext = "nil"

\* the positions of a run of the temp-file variant while its temporary file exists
TempPcs == {"rt_save", "rt_open", "rt_upload", "rt_return_ok", "rt_return_err"}

\* C22: in the variant that stages in a temporary file, a run never calls the
\* upload twice; a failed upload is followed only by the cleanup and the end of the
\* run; and a run that staged a file ends with the file removed once and absent,
\* whether the upload succeeded, failed or was never reached.
C22_UploadOnceThenCleanup ==
    /\ [](\A d \in DownloadReqs :
             /\ download[d].uploads <= 1
             /\ download[d].pc \in TempPcs =>
                   /\ TempPath(d) \in files
                   /\ download[d].removed = 0
             /\ download[d].pc \in {"rt_return_ok", "rt_return_err"} =>
                   download[d].uploads = (IF download[d].uploadPath = NoPath THEN 0 ELSE 1)
             /\ (download[d].localFilePath # NoPath /\ download[d].pc \in {"pd_done", "pd_failed"}) =>
                   /\ download[d].removed = 1
                   /\ download[d].localFilePath \notin files
             /\ download[d].pc = "pd_done" =>
                   /\ download[d].uploads = 1
                   /\ download[d].uploadPath = download[d].localFilePath)
    /\ [][\A d \in DownloadReqs :
             /\ (download[d].pc = "rt_upload" /\ download'[d].pc # "rt_upload") =>
                   /\ download'[d].pc \in {"rt_return_ok", "rt_return_err"}
                   /\ download'[d].uploads = 1
             /\ (download[d].pc = "rt_return_err" /\ download'[d].pc # "rt_return_err") =>
                   /\ download'[d].pc = "pd_failed"
                   /\ download'[d].uploads = download[d].uploads
             /\ (download[d].pc = "pd_failed" /\ download'[d].pc # "pd_failed") =>
                   download'[d] = IdleDownload]_vars

\* a run whose one upload failed has ended, its temporary file gone
C22_Witness ==
    \E d \in DownloadReqs :
        /\ download[d].pc = "pd_failed"
        /\ download[d].uploads = 1
        /\ download[d].removed = 1
        /\ download[d].localFilePath = TempPath(d)
        /\ TempPath(d) \notin files

\* the statements of a login request in program order
LoginOrder ==
    <<"idle", "lh_lock", "lh_set", "pl_lock", "pl_newpage", "pl_script", "pl_goto",
      "pl_signin", "pl_continue", "pl_email", "pl_password", "pl_checkbox", "pl_submit",
      "pl_classify", "pl_save", "pl_setflag", "pl_return", "lh_respond", "lh_responded">>

\* the statements of a download request and its task in program order; the three
\* ends come last
DownloadOrder ==
    <<"idle", "dh_rlock", "dh_read", "dh_decide", "pd_start", "rd_copy", "rd_newpage",
      "rd_script", "rd_mkdir", "rd_goto", "rd_title", "rd_visible", "rd_expect",
      "rd_save", "pd_upload", "pd_remove", "pd_done", "pd_failed", "dh_responded">>

LoginRank(pc) == CHOOSE i \in 1..Len(LoginOrder) : LoginOrder[i] = pc

DownloadRank(pc) == CHOOSE i \in 1..Len(DownloadOrder) : DownloadOrder[i] = pc

\* C23: every step of a login request and of a download request moves the run
\* forward in program order, so no statement is executed twice in one run; a run
\* that has ended (answered, done or failed) does nothing but leave its slot to the
\* next request; the upload is called at most once per run.
C23_NoRetry ==
    /\ [](\A d \in DownloadReqs : download[d].uploads <= 1 /\ download[d].spawned <= 1)
    /\ [][\A l \in LoginReqs :
             login'[l].pc # login[l].pc =>
                 IF login[l].pc = "lh_responded"
                 THEN login'[l] = IdleLogin
                 ELSE LoginRank(login'[l].pc) > LoginRank(login[l].pc)]_vars
    /\ [][\A d \in DownloadReqs :
             download'[d].pc # download[d].pc =>
                 IF download[d].pc \in {"pd_done", "pd_failed", "dh_responded"}
                 THEN download'[d] = IdleDownload
                 ELSE DownloadRank(download'[d].pc) > DownloadRank(download[d].pc)]_vars

\* a login and a download have both ended in failure, each after its first steps
C23_Witness ==
    /\ \E l \in LoginReqs : login[l].pc = "lh_responded" /\ login[l].err # ""
    /\ \E d \in DownloadReqs : download[d].pc = "pd_failed" /\ download[d].title # ""

LoginEnded(l) == login[l].pc = "lh_responded"

DownloadEnded(d) == download[d].pc \in {"dh_responded", "pd_done", "pd_failed"}

\* C24: a login request that was taken is answered, and a download request that
\* was taken is answered and its task, if spawned, ends done or failed, whatever
\* the other request does meanwhile.
C24_RunsTerminate ==
    /\ (login[1].pc # "idle") ~> LoginEnded(1)
    /\ (download[1].pc # "idle") ~> DownloadEnded(1)
    /\ (download[1].pc = "pd_start") ~> (download[1].pc \in {"pd_done", "pd_failed"})

\* a login waits for the lock while the download task holds it to copy the context
C24_Witness ==
    /\ login[1].pc = "pl_lock"
    /\ download[1].pc = "rd_copy"
    /\ Did(1) \in contextMux.r

\* the session fields
Session == <<browserContext, isLoggedIn, currentUserEmail>>

\* C25: while the server serves, a step that changes a session field is a step of
\* a login that holds the exclusive lock (the e-mail assignment of loginHandler or
\* the flag assignment of performLogin), and every request or task that is at a
\* statement reading a session field holds the lock: downloadHandler, runDownload
\* and statusHandler shared, performLogin (which uses the context) exclusive.
C25_SessionAccessUnderLock ==
    /\ [](/\ status.pc = "sh_respond" => Sid \in contextMux.r
          /\ \A d \in DownloadReqs :
                download[d].pc \in {"dh_read", "rd_copy"} => Did(d) \in contextMux.r
          /\ \A l \in LoginReqs :
                login[l].pc \in {"lh_set", "pl_newpage", "pl_save", "pl_setflag"} =>
                    contextMux = [w |-> Lid(l), r |-> {}])
    /\ [][(Serving /\ Session' # Session) =>
             \E l \in LoginReqs :
                 /\ contextMux.w = Lid(l)
                 /\ contextMux.r = {}
                 /\ login[l].pc \in {"lh_set", "pl_setflag"}
                 /\ login'[l].pc # login[l].pc]_vars

\* the e-mail of the session was replaced under the lock while a download task
\* that had copied the context drives the browser
C25_Witness ==
    /\ Serving
    /\ currentUserEmail = EmailA
    /\ login[1].pc = "pl_lock"
    /\ download[1].pc = "rd_goto"

\* the positions of the background task after the context was copied and before
\* the task ends
AfterCopyPcs == DrivingPcs \cup {"pd_upload", "pd_remove"}

\* C26: a download holds the shared lock only at the flag read of its handler and
\* at the copy of the context reference in its task; from page creation to upload
\* and removal the task holds no lock, and a login that waits for the exclusive
\* lock while such a task is in flight can take it unless a status request holds
\* the lock.
C26_LockOnlyForCopy ==
    \A d \in DownloadReqs :
        /\ contextMux.w # Did(d)
        /\ Did(d) \in contextMux.r <=> download[d].pc \in {"dh_read", "rd_copy"}
        /\ download[d].pc \in AfterCopyPcs =>
              /\ Did(d) \notin contextMux.r
              /\ \A l \in LoginReqs :
                    (login[l].pc = "pl_lock" /\ status.pc \notin {"sh_respond", "sh_responded"})
                        => ENABLED performLogin_Lock(l)

\* a login holds the exclusive lock and clicks while a download task navigates
C26_Witness ==
    \E l \in LoginReqs, d \in DownloadReqs :
        /\ login[l].pc = "pl_signin"
        /\ contextMux.w = Lid(l)
        /\ download[d].pc = "rd_goto"
        /\ download[d].currentContext = browserContext

SuccessShown(v) == \E i \in SuccessSelectors : v.successVisible[i]

FailureShown(v) == v.pageURL \in LoginPageURLs \/ \E j \in ErrorSelectors : v.errorVisible[j]

\* C27: the classification step goes on to save the storage state, with no error,
\* when a success selector is visible (whatever the URL and the error selectors)
\* or when neither a success nor a failure signal shows; it returns a login-failed
\* error when no success selector is visible and the URL is a login-page URL or an
\* error selector is visible.  A login classified as success that saved the state
\* sets isLoggedIn and answers success.
C27_Classification ==
    /\ [][\A l \in LoginReqs :
             (login[l].pc = "pl_classify" /\ login'[l].pc # "pl_classify") =>
                 IF SuccessShown(login'[l].view) \/ ~FailureShown(login'[l].view)
                 THEN login'[l].pc = "pl_save" /\ login'[l].err = ""
                 ELSE /\ login'[l].pc = "pl_return"
                      /\ login'[l].err = (IF login'[l].view.pageURL \in LoginPageURLs
                                          THEN "login failed - still on login page"
                                          ELSE "login failed - error message detected")]_vars
    /\ [](\A l \in LoginReqs :
             /\ login[l].pc \in {"pl_save", "pl_setflag"} =>
                   (SuccessShown(login[l].view) \/ ~FailureShown(login[l].view))
             /\ (login[l].pc \in {"pl_return", "lh_respond", "lh_responded"}
                   /\ login[l].view # NoView /\ login[l].err = "") =>
                   /\ isLoggedIn
                   /\ stateFile = "present"
                   /\ SuccessShown(login[l].view) \/ ~FailureShown(login[l].view))

\* a login whose page showed no success selector, no error selector and another
\* URL than the login pages has answered success and set the flag
C27_Witness ==
    \E l \in LoginReqs :
        /\ login[l].pc = "lh_responded"
        /\ login[l].err = ""
        /\ login[l].view # NoView
        /\ ~SuccessShown(login[l].view)
        /\ ~FailureShown(login[l].view)
        /\ isLoggedIn

\* the statements of performLogin before its return
LoginStepPcs == PerformLoginPcs \ {"pl_return"}

\* C28: performLogin is at a step only with no error so far; a step either hands
\* over to the step that follows it in the order navigate, sign-in, continue,
\* e-mail, password, checkbox, submit, classify, save, set flag, or returns an
\* error at once, leaving the storage-state file and the flag as they were unless
\* the failing step is the save itself, whose file write is the only effect.
C28_LinearLogin ==
    /\ [](\A l \in LoginReqs : login[l].pc \in LoginStepPcs => login[l].err = "")
    /\ [][\A l \in LoginReqs :
             (login[l].pc \in LoginStepPcs /\ login'[l].pc # login[l].pc) =>
                 \/ /\ LoginRank(login'[l].pc) = LoginRank(login[l].pc) + 1
                    /\ login'[l].err = ""
                 \/ /\ login'[l].pc = "pl_return"
                    /\ login'[l].err # ""
                    /\ isLoggedIn' = isLoggedIn
                    /\ stateFile' = stateFile]_vars

\* the e-mail was filled and the password fill failed: performLogin is at its
\* return with that error, nothing saved
C28_Witness ==
    \E l \in LoginReqs :
        /\ login[l].pc = "pl_return"
        /\ login[l].err = "failed to fill password"
        /\ stateFile = "absent"
        /\ ~isLoggedIn

\* C29: the checkbox step always hands over to the submit step with no error
\* recorded, whether the checkbox is invisible, gets checked, or the check fails,
\* and changes nothing of the session; what the login answers is the outcome of
\* the submit, the classification or the save.
C29_CheckboxBestEffort ==
    /\ [][\A l \in LoginReqs :
             (login[l].pc = "pl_checkbox" /\ login'[l].pc # "pl_checkbox") =>
                 /\ login'[l] = [login[l] EXCEPT !.pc = "pl_submit"]
                 /\ Session' = Session
                 /\ stateFile' = stateFile]_vars
    /\ [](\A l \in LoginReqs :
             /\ login[l].pc = "pl_submit" => login[l].err = ""
             /\ login[l].pc \in {"pl_return", "lh_respond", "lh_responded"} =>
                   login[l].err # "failed to check stay logged in")

\* two logins are past the checkbox step: one answers success, the other failed at
\* the submit
C29_Witness ==
    \E l1 \in LoginReqs, l2 \in LoginReqs :
        /\ LoginSucceeded(l1)
        /\ login[l2].pc = "pl_return"
        /\ login[l2].err = "failed to click login button"

\* the page of run d passed the title check
TitlePassed(d) == download[d].title \in Titles \ BlockTitles

\* run d is about to call the upload or has called it
AtOrPastUpload(d) ==
    download[d].pc \in {"pd_upload", "pd_remove", "pd_done"} \/ download[d].uploads > 0

\* C30: the browser steps of a run follow each other in the order page creation,
\* script injection, directory, navigation, title check, control lookup, capture,
\* save, and each either hands over to the next or ends the run; the upload is
\* reached only from a successful save, so with a copied context, a title that is
\* no block indicator, a visible control and a staged file; a run whose control
\* was not visible has ended there: it is at no capture or save step, has staged
\* no file and called no upload.
C30_PipelineOrder ==
    /\ [](\A d \in DownloadReqs :
             /\ AtOrPastUpload(d) =>
                   /\ download[d].currentContext # "nil"
                   /\ TitlePassed(d)
                   /\ download[d].visible = "yes"
                   /\ download[d].localFilePath # NoPath
             /\ download[d].pc \in {"rd_expect", "rd_save"} =>
                   (TitlePassed(d) /\ download[d].visible = "yes")
             /\ download[d].pc \in {"rd_newpage", "rd_script", "rd_mkdir", "rd_goto"} =>
                   (download[d].title = "" /\ download[d].visible = "unseen")
             /\ download[d].visible = "no" =>
                   /\ download[d].pc = "pd_failed"
                   /\ download[d].localFilePath = NoPath
                   /\ download[d].uploads = 0)
    /\ [][\A d \in DownloadReqs :
             (download[d].pc \in DrivingPcs /\ download'[d].pc # download[d].pc) =>
                 \/ DownloadRank(download'[d].pc) = DownloadRank(download[d].pc) + 1
                 \/ /\ download'[d].pc = "pd_failed"
                    /\ download'[d].localFilePath = NoPath
                    /\ files' = files]_vars

\* a run passed the title check and ended at the control lookup: nothing staged
C30_Witness ==
    \E d \in DownloadReqs :
        /\ download[d].pc = "pd_failed"
        /\ download[d].visible = "no"
        /\ TitlePassed(d)
        /\ download[d].localFilePath = NoPath
        /\ download[d].uploads = 0

\* C31: in the temp-file variant the temporary file, once created, stays on disk
\* until runDownload returns; the removal is a step taken from a return position
\* (after a failed save, a failed open, or the upload call, failed or not) with no
\* handle of the run open on the file; a run that created the file ends with the
\* file removed once, and a run that uploaded ends with its handle closed.
C31_TempRemovedOnceAfterClose ==
    /\ [](\A d \in DownloadReqs :
             /\ download[d].removed <= 1
             /\ download[d].pc \in {"rt_save", "rt_open", "rt_upload"} =>
                   (download[d].removed = 0 /\ TempPath(d) \in files)
             /\ download[d].handle = "open" => TempPath(d) \in files
             /\ download[d].removed = 1 =>
                   /\ download[d].pc \in {"pd_done", "pd_failed"}
                   /\ download[d].localFilePath = TempPath(d)
                   /\ download[d].handle = (IF download[d].uploads = 1 THEN "closed" ELSE "none")
             /\ (download[d].localFilePath # NoPath /\ download[d].pc \in {"pd_done", "pd_failed"}) =>
                   download[d].removed = 1)
    /\ [][\A d \in DownloadReqs :
             (download'[d].removed # download[d].removed /\ download'[d] # IdleDownload) =>
                 /\ download[d].pc \in {"rt_return_ok", "rt_return_err"}
                 /\ download[d].handle # "open"
                 /\ download'[d].removed = download[d].removed + 1
                 /\ TempPath(d) \in files
                 /\ TempPath(d) \notin files']_vars

\* one run ended after a failed save or open, another after its upload: both
\* temporary files are gone
C31_Witness ==
    \E d1 \in DownloadReqs, d2 \in DownloadReqs :
        /\ download[d1].pc = "pd_failed"
        /\ download[d1].removed = 1
        /\ download[d1].uploads = 0
        /\ download[d2].pc = "pd_done"
        /\ download[d2].removed = 1
        /\ download[d2].handle = "closed"
        /\ files \cap {TempPath(d1), TempPath(d2)} = {}

\* the positions of a run of the per-request-context variant while its context is
\* open
ContextPcs ==
    {"rc_newpage", "rc_script", "rc_mkdir", "rc_goto", "rc_title", "rc_visible",
     "rc_expect", "rc_save", "rc_return_ok", "rc_return_err"}

\* run d has created a context
HasContext(d) == download[d].currentContext \in Contexts

\* C32: in the per-request-context variant a run that drives a page has a context
\* of its own, open, which is not the process-wide context variable and not the
\* open context of any other run; a run that created a context ends with that
\* context closed once, whichever step it returned from, and a run that failed to
\* create one closes nothing; the close is a step taken when runDownload returns.
C32_OwnContextClosedOnce ==
    /\ [](\A d \in DownloadReqs :
             /\ browserContext = "nil"
             /\ download[d].contextCloses <= 1
             /\ download[d].pc \in ContextPcs =>
                   (HasContext(d) /\ download[d].contextCloses = 0)
             /\ \A e \in DownloadReqs \ {d} :
                   (download[d].pc \in ContextPcs /\ download[e].pc \in ContextPcs) =>
                       download[d].currentContext # download[e].currentContext
             /\ download[d].pc \in {"pd_done", "pd_failed"} =>
                   download[d].contextCloses = (IF HasContext(d) THEN 1 ELSE 0)
             /\ download[d].pc = "pd_done" => HasContext(d))
    /\ [][\A d \in DownloadReqs :
             (download'[d].contextCloses # download[d].contextCloses
               /\ download'[d] # IdleDownload) =>
                 /\ download[d].pc \in {"rc_return_ok", "rc_return_err"}
                 /\ download'[d].contextCloses = 1
                 /\ download'[d].currentContext = download[d].currentContext]_vars

\* a run navigates in its own context while another, blocked at the title check,
\* has ended with its context closed
C32_Witness ==
    \E d1 \in DownloadReqs, d2 \in DownloadReqs :
        /\ download[d1].pc = "rc_goto"
        /\ HasContext(d1)
        /\ download[d2].pc = "pd_failed"
        /\ download[d2].title \in BlockTitles
        /\ download[d2].contextCloses = 1

\* run d has staged a local file and has not ended
StagedInFlight(d) == download[d].pc \in {"pd_upload", "pd_remove"}

\* C33 as stated: two runs in flight at once never have the same staging path,
\* and the file a run staged is on disk as long as the run is in flight, so no
\* other run has deleted it.
C33_NoSharedStagingPath ==
    \A d1 \in DownloadReqs :
        /\ StagedInFlight(d1) => download[d1].localFilePath \in files
        /\ \A d2 \in DownloadReqs \ {d1} :
              (StagedInFlight(d1) /\ StagedInFlight(d2)) =>
                  download[d1].localFilePath # download[d2].localFilePath

====
